---- MODULE Spec2Model ----
(***************************************************************************)
(* Rate-sheet HTML tools: the three services of the repository.            *)
(*                                                                         *)
(*   server.js             /api/upload-csv -> generateRateSheetHtml        *)
(*   unnamed/part_000      /upload -> detectCsvType, parsePromo,           *)
(*                         parseStandard, generatePromoHTML, ...           *)
(*   unnamed/part_001      /upload-csv -> buildTablesHtmlFromCsv,          *)
(*                         applyTablesToTemplate                           *)
(*                                                                         *)
(* Text.  A JavaScript string is a sequence of atoms.  An atom is one      *)
(* character ("<", "3", " ", "M"), or a run of letters that no pattern of  *)
(* the code splits ("Tier", "Month", "Program"); "NL" is the line feed and *)
(* "CR" the carriage return.  The empty string '' is <<>>; undefined and   *)
(* '' are both falsy and are both <<>> (the code never tells them apart:   *)
(* every use is a truthiness test or `x !== undefined ? x : ''`).          *)
(*                                                                         *)
(* HTML.  A rendered fragment is a sequence of elements, each a record     *)
(* whose fields are the texts the code interpolates into its fixed markup  *)
(* skeleton, in the order it interpolates them.  The skeleton itself (the  *)
(* tags and class attributes) is fixed per element kind and is not         *)
(* spelled out.                                                            *)
(***************************************************************************)
EXTENDS Integers, Sequences, FiniteSets, TLC

VARIABLES
    req,        \* the request being handled: route and payload
    res,        \* the response sent for it (NoResponse before the handler ran)
    outputDoc,  \* public/promo_output_polaris.html (part_001), NoDoc if never written
    template,   \* template.html (part_001), as pieces of text
    raw,        \* term normalisation: the raw term string
    label,      \* term normalisation: results of the first and second application
    passes,     \* term normalisation: number of applications done (0, 1, 2)
    cachedRatesHtml,  \* server.js: the cached fragment, <<>> for ''
    lastRefresh,      \* server.js: time of the last refresh, 0 for null
    sheetsAuth,       \* server.js: the Sheets client was created
    env,              \* process.env: RATE_SHEET_ID and GOOGLE_SERVICE_ACCOUNT
    spreadsheet,      \* the spreadsheet at Google: its tabs, in order
    clock,            \* the time new Date() gives
    calls             \* the requests to /rates/latest and /admin/refresh-rates in progress

uploadVars == <<req, res, outputDoc, template>>
normVars == <<raw, label, passes>>
cacheVars == <<cachedRatesHtml, lastRefresh, sheetsAuth, env, spreadsheet, clock, calls>>

vars == <<req, res, outputDoc, template, raw, label, passes,
          cachedRatesHtml, lastRefresh, sheetsAuth, env, spreadsheet, clock, calls>>

----------------------------------------------------------------------------
(* Strings *)

WhiteSpace == {" ", "NL", "CR"}

Digits == {"0", "1", "2", "3", "4", "5", "6", "7", "8", "9"}

DigitVal(c) ==
    CASE c = "0" -> 0 [] c = "1" -> 1 [] c = "2" -> 2 [] c = "3" -> 3
      [] c = "4" -> 4 [] c = "5" -> 5 [] c = "6" -> 6 [] c = "7" -> 7
      [] c = "8" -> 8 [] c = "9" -> 9

\* The letter-run atoms in their lower, capitalised and upper spelling.
CaseTable ==
    << <<"tier", "Tier", "TIER">>, <<"s", "s", "S">>, <<"m", "m", "M">>,
       <<"month", "Month", "MONTH">>, <<"program", "Program", "PROGRAM">>,
       <<"name", "Name", "NAME">>, <<"stub", "Stub", "STUB">>,
       <<"interest", "Interest", "INTEREST">>, <<"rate", "Rate", "RATE">>,
       <<"repayment", "Repayment", "REPAYMENT">>, <<"term", "Term", "TERM">>,
       <<"eligibility", "Eligibility", "ELIGIBILITY">>,
       <<"eligible", "Eligible", "ELIGIBLE">>, <<"list", "List", "LIST">>,
       <<"product", "Product", "PRODUCT">>, <<"model", "Model", "MODEL">>,
       <<"year", "Year", "YEAR">>, <<"down", "Down", "DOWN">>,
       <<"payment", "Payment", "PAYMENT">>, <<"front", "Front", "FRONT">>,
       <<"end", "End", "END">>, <<"cap", "Cap", "CAP">>,
       <<"dealer", "Dealer", "DEALER">>, <<"fee", "Fee", "FEE">>,
       <<"table", "Table", "TABLE">>, <<"group", "Group", "GROUP">>,
       <<"promo", "Promo", "PROMO">>, <<"rt", "Rt", "RT">>,
       <<"notes", "Notes", "NOTES">>, <<"standard", "Standard", "STANDARD">>,
       <<"partner", "Partner", "PARTNER">>, <<"non", "Non", "NON">>,
       <<"used", "Used", "USED">>, <<"a", "a", "A">>, <<"b", "b", "B">>,
       <<"x", "x", "X">>, <<"y", "y", "Y">> >>

\* every atom of the table -> its spelling in column col
CaseMap(table, col) ==
    [a \in UNION {{table[i][1], table[i][2], table[i][3]} : i \in 1..Len(table)} |->
        table[CHOOSE i \in 1..Len(table) : a \in {table[i][1], table[i][2], table[i][3]}][col]]

LowerOf == CaseMap(CaseTable, 1)

UpperOf == CaseMap(CaseTable, 3)

\* an atom outside the table (a digit, a sign, white space) has no case
FoldAtom(map, a) == IF a \in DOMAIN map THEN map[a] ELSE a

RECURSIVE toLowerCase(_)
toLowerCase(s) ==
    IF s = <<>> THEN <<>> ELSE <<FoldAtom(LowerOf, Head(s))>> \o toLowerCase(Tail(s))

RECURSIVE toUpperCase(_)
toUpperCase(s) ==
    IF s = <<>> THEN <<>> ELSE <<FoldAtom(UpperOf, Head(s))>> \o toUpperCase(Tail(s))

\* the least element of a set of integers, `none` when the set is empty
MinOr(S, none) == IF S = {} THEN none ELSE CHOOSE i \in S : \A k \in S : i <= k

RECURSIVE TrimStart(_)
TrimStart(s) ==
    IF s # <<>> /\ Head(s) \in WhiteSpace THEN TrimStart(Tail(s)) ELSE s

RECURSIVE TrimEnd(_)
TrimEnd(s) ==
    IF s # <<>> /\ s[Len(s)] \in WhiteSpace THEN TrimEnd(SubSeq(s, 1, Len(s) - 1)) ELSE s

\* String.prototype.trim
Trim(s) == TrimEnd(TrimStart(s))

\* String.prototype.includes
Includes(hay, needle) ==
    \E i \in 0..(Len(hay) - Len(needle)) :
        \A j \in 1..Len(needle) : hay[i + j] = needle[j]

\* String.prototype.indexOf on strings, 0-based, -1 when absent
StrIndexOf(hay, needle) ==
    MinOr({i \in 0..(Len(hay) - Len(needle)) :
              \A j \in 1..Len(needle) : hay[i + j] = needle[j]}, -1)

\* s.replace(/c/g, by): every atom in `cs` replaced by the atoms of `by`
RECURSIVE ReplaceAll(_, _, _)
ReplaceAll(s, cs, by) ==
    IF s = <<>> THEN <<>>
    ELSE (IF Head(s) \in cs THEN by ELSE <<Head(s)>>) \o ReplaceAll(Tail(s), cs, by)

\* Array.prototype.join
RECURSIVE Join(_, _)
Join(cells, sep) ==
    IF cells = <<>> THEN <<>>
    ELSE IF Len(cells) = 1 THEN cells[1]
    ELSE cells[1] \o sep \o Join(Tail(cells), sep)

\* row[idx] with a 0-based index; undefined (out of range, or idx = -1) is <<>>
Cell(row, idx) == IF idx >= 0 /\ idx < Len(row) THEN row[idx + 1] ELSE <<>>

\* Array.prototype.indexOf / findIndex, 0-based, -1 when absent
FirstIndex(row, P(_)) == MinOr({i \in 1..Len(row) : P(row[i])}, 0) - 1

\* An insertion-ordered Set, kept as a sequence without repetitions: Set.add
SetAdd(seq, x) == IF \E i \in 1..Len(seq) : seq[i] = x THEN seq ELSE Append(seq, x)

Range(seq) == {seq[i] : i \in 1..Len(seq)}

----------------------------------------------------------------------------
(* HTML escaping *)

AMP == <<"&", "a", "m", "p", ";">>
LT == <<"&", "l", "t", ";">>
GT == <<"&", "g", "t", ";">>
QUOT == <<"&", "q", "u", "o", "t", ";">>
APOS == <<"&", "#", "0", "3", "9", ";">>

\* server.js: five replacements, & first
escapeHtml(str) ==
    ReplaceAll(ReplaceAll(ReplaceAll(ReplaceAll(ReplaceAll(str,
        {"&"}, AMP), {"<"}, LT), {">"}, GT), {"\""}, QUOT), {"'"}, APOS)

\* part_001: four replacements, no apostrophe
escapeHtmlPolaris(str) ==
    ReplaceAll(ReplaceAll(ReplaceAll(ReplaceAll(str,
        {"&"}, AMP), {"<"}, LT), {">"}, GT), {"\""}, QUOT)

\* part_000: clean() strips line breaks and trims; it escapes nothing
clean(value) == Trim(ReplaceAll(value, {"NL", "CR"}, <<>>))

----------------------------------------------------------------------------
(* Numbers read from and written to strings *)

RECURSIVE LeadingDigits(_)
LeadingDigits(s) ==
    IF s # <<>> /\ Head(s) \in Digits THEN <<Head(s)>> \o LeadingDigits(Tail(s)) ELSE <<>>

\* parseInt(digits, 10) of a non-empty digit string
RECURSIVE parseInt(_)
parseInt(ds) ==
    IF ds = <<>> THEN 0 ELSE 10 * parseInt(SubSeq(ds, 1, Len(ds) - 1)) + DigitVal(ds[Len(ds)])

DigitChar(n) == CHOOSE c \in Digits : DigitVal(c) = n

\* String(n) of a natural number
RECURSIVE NatToStr(_)
NatToStr(n) == IF n < 10 THEN <<DigitChar(n)>> ELSE NatToStr(n \div 10) \o <<DigitChar(n % 10)>>

RECURSIVE StripTrailingZeros(_)
StripTrailingZeros(ds) ==
    IF ds # <<>> /\ ds[Len(ds)] = "0" THEN StripTrailingZeros(SubSeq(ds, 1, Len(ds) - 1)) ELSE ds

NaN == [nan |-> TRUE, neg |-> FALSE, ip |-> 0, fp |-> <<>>]

\* parseFloat: the longest prefix  [+-]? ( digits [. digits*]? | . digits+ )  after
\* leading white space; NaN when there is none.  The number is kept as its sign,
\* integer part and fraction digits (no exponent or Infinity: the atoms of the
\* model spell neither).
parseFloat(str) ==
    LET number(id, fd, neg) ==
            IF id = <<>> /\ fd = <<>> THEN NaN
            ELSE [nan |-> FALSE, neg |-> neg, ip |-> parseInt(id), fp |-> StripTrailingZeros(fd)]
        fraction(aft) ==
            IF aft # <<>> /\ Head(aft) = "." THEN LeadingDigits(Tail(aft)) ELSE <<>>
        unsigned(body, neg) ==
            LET split(id) == number(id, fraction(SubSeq(body, Len(id) + 1, Len(body))), neg)
            IN  split(LeadingDigits(body))
        signed(s, sign) == unsigned(SubSeq(s, sign + 1, Len(s)), sign = 1 /\ Head(s) = "-")
        trimmed(s) == signed(s, IF s # <<>> /\ Head(s) \in {"+", "-"} THEN 1 ELSE 0)
    IN  trimmed(TrimStart(str))

isNaN(num) == num.nan

\* String(num) for a number in the range where JavaScript prints plain decimals
NumToStr(num) ==
    (IF num.neg /\ (num.ip # 0 \/ num.fp # <<>>) THEN <<"-">> ELSE <<>>)
        \o NatToStr(num.ip)
        \o (IF num.fp = <<>> THEN <<>> ELSE <<".">> \o num.fp)

\* the fraction digits as digit values, padded with zeros to length n
FracDigit(num, i) == IF i <= Len(num.fp) THEN DigitVal(num.fp[i]) ELSE 0

\* sign of |a| - |b|
MagCmp(a, b) ==
    IF a.ip # b.ip THEN (IF a.ip < b.ip THEN -1 ELSE 1)
    ELSE LET at(i) == IF i = 0 THEN 0
                      ELSE IF FracDigit(a, i) < FracDigit(b, i) THEN -1 ELSE 1
         IN  at(MinOr({i \in 1..(Len(a.fp) + Len(b.fp)) : FracDigit(a, i) # FracDigit(b, i)}, 0))

IsZero(num) == num.ip = 0 /\ num.fp = <<>>

\* sign of a - b for two numbers (neither NaN)
NumCmp(a, b) ==
    LET an == a.neg /\ ~IsZero(a)
        bn == b.neg /\ ~IsZero(b)
    IN  IF an /\ ~bn THEN -1
        ELSE IF ~an /\ bn THEN 1
        ELSE IF an THEN MagCmp(b, a)
        ELSE MagCmp(a, b)

\* s.replace(/\.0+$/, "")
StripDotZeros(s) ==
    LET strip(z) ==
            IF Len(z) < Len(s) /\ z # <<>> /\ z[Len(z)] = "." THEN SubSeq(z, 1, Len(z) - 1) ELSE s
    IN  strip(StripTrailingZeros(s))

----------------------------------------------------------------------------
(* Collation and sorting *)

\* String.prototype.localeCompare, as the root collation orders the atoms of the
\* model: white space, punctuation, digits, letters; letters without regard to
\* case at the first level.
CollationOrder ==
    <<"NL", "CR", " ", "-", ",", ";", "'", "\"", "(", ")", "/", "&", "#", "%", "+", "<", ">", "|", ".",
      "0", "1", "2", "3", "4", "5", "6", "7", "8", "9",
      "a", "b", "cap", "dealer", "down", "eligibility", "eligible", "end", "fee",
      "front", "g", "group", "interest", "l", "list", "m", "model", "month", "name",
      "non", "notes", "o", "p", "partner", "payment", "product", "program", "promo",
      "q", "rate", "repayment", "rt", "s", "standard", "stub", "t", "table", "term",
      "tier", "u", "used", "x", "y", "year">>

\* the position of a lower-case atom in the order; atoms outside it come last
RankIn(order, l) == MinOr({i \in 1..Len(order) : order[i] = l}, Len(order) + 1)

Rank(a) == RankIn(CollationOrder, FoldAtom(LowerOf, a))

Ranks(s) == [i \in 1..Len(s) |-> Rank(s[i])]

\* sign of the first difference; a proper prefix sorts first
RankCmp(ra, rb) ==
    LET at(i) == IF i = 0
                 THEN (IF Len(ra) < Len(rb) THEN -1 ELSE IF Len(ra) > Len(rb) THEN 1 ELSE 0)
                 ELSE IF ra[i] < rb[i] THEN -1 ELSE 1
    IN  at(MinOr({i \in 1..Len(ra) : i <= Len(rb) /\ ra[i] # rb[i]}, 0))

localeCompare(a, b) == RankCmp(Ranks(a), Ranks(b))

\* One step of a stable insertion sort: e goes after the last element that does
\* not compare greater than it.
InsertSorted(sorted, e, cmp(_, _)) ==
    LET place(p) == SubSeq(sorted, 1, p) \o <<e>> \o SubSeq(sorted, p + 1, Len(sorted))
    IN  place(MinOr({j \in 0..Len(sorted) :
                        \A i \in (j + 1)..Len(sorted) : cmp(sorted[i], e) > 0}, 0))

\* Array.prototype.sort(cmp): stable
SortBy(s, cmp(_, _)) ==
    LET f[n \in 0..Len(s)] == IF n = 0 THEN <<>> ELSE InsertSorted(f[n - 1], s[n], cmp)
    IN  f[Len(s)]

----------------------------------------------------------------------------
(* server.js: label normalisation and the column locator *)

\* /^(\d+)\s*month/i : the digits when s matches, <<>> otherwise
MonthMatch(s) ==
    LET after(d, rest) ==
            IF d # <<>> /\ rest # <<>> /\ FoldAtom(LowerOf, Head(rest)) = "month" THEN d ELSE <<>>
        digits(d) == after(d, TrimStart(SubSeq(s, Len(d) + 1, Len(s))))
    IN  digits(LeadingDigits(s))

formatTermLabel(rawTerm) ==
    LET labelOf(s, m) == IF m # <<>> THEN m \o <<"M">> ELSE s
        trimmed(s) == labelOf(s, MonthMatch(s))
    IN  IF rawTerm = <<>> THEN <<>> ELSE trimmed(Trim(rawTerm))

\* /^tier\s+/i
formatTierLabel(rawTier) ==
    LET trimmed(s) ==
            IF Len(s) >= 2 /\ FoldAtom(LowerOf, s[1]) = "tier" /\ s[2] \in WhiteSpace
            THEN s
            ELSE <<"Tier", " ">> \o s
    IN  IF rawTier = <<>> THEN <<>> ELSE trimmed(Trim(rawTier))

findColumnIndex(headerRow, keyword) ==
    LET HasKeyword(cell) == cell # <<>> /\ Includes(toLowerCase(cell), toLowerCase(keyword))
    IN  FirstIndex(headerRow, HasKeyword)

findAnyColumnIndex(headerRow, keywords) ==
    LET first(found, k) == IF k = 0 THEN -1 ELSE found[k]
        pick(found) == first(found, MinOr({k \in 1..Len(found) : found[k] # -1}, 0))
    IN  pick([k \in 1..Len(keywords) |-> findColumnIndex(headerRow, keywords[k])])

----------------------------------------------------------------------------
(* part_001: term labels *)

termLabelFrom(value) ==
    LET labelOf(str, num) == IF ~isNaN(num) THEN StripDotZeros(NumToStr(num)) \o <<"M">> ELSE str
        trimmed(str) == labelOf(str, parseFloat(str))
    IN  trimmed(Trim(value))

----------------------------------------------------------------------------
(* server.js: the renderers *)

\* '<p>...</p>'
Paragraph(text) == [kind |-> "p", text |-> text]

\* rows.some(cell => cell && String(cell).trim() !== '')
hasContent(row) == \E i \in 1..Len(row) : row[i] # <<>> /\ Trim(row[i]) # <<>>

\* The <tr> of one data row: one <td> per header cell
simpleTableRow(headerRow, row) == [idx \in 1..Len(headerRow) |-> escapeHtml(Cell(row, idx - 1))]

RECURSIVE simpleTableBody(_, _)
simpleTableBody(headerRow, dataRows) ==
    IF dataRows = <<>> THEN <<>>
    ELSE (IF hasContent(Head(dataRows)) THEN <<simpleTableRow(headerRow, Head(dataRows))>> ELSE <<>>)
             \o simpleTableBody(headerRow, Tail(dataRows))

simpleTableHtml(rows) ==
    IF rows = <<>> THEN <<Paragraph("No data found.")>>
    ELSE << [kind |-> "table",
             head |-> [i \in 1..Len(rows[1]) |-> escapeHtml(rows[1][i])],
             body |-> simpleTableBody(rows[1], Tail(rows))] >>

NoPivot == [termSet |-> <<>>, tierKeys |-> <<>>, tierMap |-> <<>>, tierMeta |-> <<>>]

NoMeta == [dp |-> <<>>, cap |-> <<>>, fee |-> <<>>]

\* meta.x as left by `if (idx !== -1 && row[idx] && !meta.x) meta.x = String(row[idx]).trim()`
metaOnce(old, row, idx) ==
    IF idx # -1 /\ Cell(row, idx) # <<>> /\ old = <<>> THEN Trim(Cell(row, idx)) ELSE old

\* first write wins: the rate a tier already has for the term is kept
setRateOnce(rowMap, termLabel, rateStr) == rowMap @@ (termLabel :> rateStr)

\* tierMap.get(tierLabel)[termLabel] = rateStr
setRate(rowMap, termLabel, rateStr) == (termLabel :> rateStr) @@ rowMap

\* One pass of the first dataRows.forEach of buildPromoBlock
pivotRow(acc, row, indices) ==
    LET put(tierLabel, termLabel, rateStr, rowMap, meta) ==
            [termSet  |-> SetAdd(acc.termSet, termLabel),
             tierKeys |-> SetAdd(acc.tierKeys, tierLabel),
             tierMap  |-> (tierLabel :> setRate(rowMap, termLabel, rateStr)) @@ acc.tierMap,
             tierMeta |-> (tierLabel :>
                             [dp  |-> metaOnce(meta.dp, row, indices.dpIdx),
                              cap |-> metaOnce(meta.cap, row, indices.capIdx),
                              fee |-> metaOnce(meta.fee, row, indices.feeIdx)])
                          @@ acc.tierMeta]
        labelled(tierLabel, termLabel, rateStr, has) ==
            put(tierLabel, termLabel, rateStr,
                IF has THEN acc.tierMap[tierLabel] ELSE <<>>,
                IF has THEN acc.tierMeta[tierLabel] ELSE NoMeta)
        tiered(tierLabel, termRaw, rateRaw) ==
            labelled(tierLabel, formatTermLabel(termRaw), Trim(rateRaw),
                     tierLabel \in DOMAIN acc.tierMap)
        cells(tierRaw, rateRaw, termRaw) ==
            IF tierRaw = <<>> \/ rateRaw = <<>> \/ termRaw = <<>> THEN acc
            ELSE tiered(formatTierLabel(tierRaw), termRaw, rateRaw)
    IN  cells(Cell(row, indices.tierIdx), Cell(row, indices.rateIdx), Cell(row, indices.termIdx))

pivot(dataRows, indices) ==
    LET f[n \in 0..Len(dataRows)] ==
            IF n = 0 THEN NoPivot ELSE pivotRow(f[n - 1], dataRows[n], indices)
    IN  f[Len(dataRows)]

\* the terms compared as text only
termCompareLexical(a, b) == localeCompare(a, b)

\* the comparator of termLabels.sort
termCompare(a, b) ==
    LET cmp(ma, mb) ==
            IF ma # <<>> /\ mb # <<>> THEN parseInt(ma) - parseInt(mb) ELSE localeCompare(a, b)
    IN  cmp(LeadingDigits(a), LeadingDigits(b))

sortTermLabels(termSet) == SortBy(termSet, termCompare)

\* the eligibility text one row contributes ('' for none)
eligText(row, indices) ==
    LET synth(product, years) ==
            IF product # <<>> /\ years # <<>> THEN product \o <<" ", "(">> \o years \o <<")">>
            ELSE IF product # <<>> THEN product ELSE years
        own(cell) ==
            IF indices.eligibilityIdx # -1 /\ cell # <<>> THEN Trim(cell)
            ELSE synth(IF indices.productIdx # -1
                       THEN Trim(Cell(row, indices.productIdx)) ELSE <<>>,
                       IF indices.modelYearsIdx # -1
                       THEN Trim(Cell(row, indices.modelYearsIdx)) ELSE <<>>)
    IN  own(Cell(row, indices.eligibilityIdx))

\* The second dataRows.forEach of buildPromoBlock: every row of the block, whether
\* or not the pivot kept it
eligSetOf(dataRows, indices) ==
    LET add(set, text) == IF text # <<>> THEN SetAdd(set, text) ELSE set
        f[n \in 0..Len(dataRows)] ==
            IF n = 0 THEN <<>> ELSE add(f[n - 1], eligText(dataRows[n], indices))
    IN  f[Len(dataRows)]

\* item.split(/\r?\n/)
RECURSIVE splitLines(_)
splitLines(s) ==
    LET cut(i) ==
            IF i = 0 THEN <<s>>
            ELSE <<SubSeq(s, 1, IF i > 1 /\ s[i - 1] = "CR" THEN i - 2 ELSE i - 1)>>
                     \o splitLines(SubSeq(s, i + 1, Len(s)))
    IN  cut(MinOr({i \in 1..Len(s) : s[i] = "NL"}, 0))

\* the <li> texts of one eligibility item
eligListItems(item) ==
    LET render(parts) ==
            IF Len(parts) > 1 THEN [i \in 1..Len(parts) |-> escapeHtml(parts[i])]
            ELSE <<escapeHtml(item)>>
        trimmed(lines) ==
            render(SelectSeq([i \in 1..Len(lines) |-> Trim(lines[i])], LAMBDA q : q # <<>>))
    IN  trimmed(splitLines(item))

RECURSIVE eligList(_)
eligList(items) ==
    IF items = <<>> THEN <<>> ELSE eligListItems(Head(items)) \o eligList(Tail(items))

\* The <tr> of one tier
promoRow(tier, pv, termLabels, indices) ==
    [tier  |-> escapeHtml(tier),
     rates |-> [i \in 1..Len(termLabels) |->
                  escapeHtml(IF termLabels[i] \in DOMAIN pv.tierMap[tier]
                             THEN pv.tierMap[tier][termLabels[i]] ELSE <<>>)],
     meta  |-> (IF indices.dpIdx # -1 THEN <<escapeHtml(pv.tierMeta[tier].dp)>> ELSE <<>>)
            \o (IF indices.capIdx # -1 THEN <<escapeHtml(pv.tierMeta[tier].cap)>> ELSE <<>>)
            \o (IF indices.feeIdx # -1 THEN <<escapeHtml(pv.tierMeta[tier].fee)>> ELSE <<>>)]

\* '' is <<>>; otherwise the one <div class="mb-20"> block.  The heading is passed
\* in and never emitted.
buildPromoBlock(heading, headerRow, dataRows, indices) ==
    LET block(pv, termLabels) ==
            << [kind     |-> "promo",
                terms    |-> [i \in 1..Len(termLabels) |-> escapeHtml(termLabels[i])],
                metaHead |-> (IF indices.dpIdx # -1 THEN <<"Down Payment">> ELSE <<>>)
                          \o (IF indices.capIdx # -1 THEN <<"Front-End Cap">> ELSE <<>>)
                          \o (IF indices.feeIdx # -1 THEN <<"Dealer Fee">> ELSE <<>>),
                rows     |-> [i \in 1..Len(pv.tierKeys) |->
                                promoRow(pv.tierKeys[i], pv, termLabels, indices)],
                elig     |-> eligList(eligSetOf(dataRows, indices))] >>
        pivoted(pv) ==
            IF pv.tierKeys = <<>> \/ pv.termSet = <<>> THEN <<>>
            ELSE block(pv, sortTermLabels(pv.termSet))
    IN  pivoted(pivot(dataRows, indices))

----------------------------------------------------------------------------
(* server.js: generateRateSheetHtml *)

EligibilityKeywords ==
    << <<"eligibility", " ", "list">>,
       <<"eligible", " ", "product", "s", "/", "model", "s">>,
       <<"eligible", " ", "product", "s">>,
       <<"eligible", " ", "model", "s">>,
       <<"eligible", " ", "makes">>,
       <<"makes", " ", "&", " ", "model", "s">>,
       <<"makes", " ", "and", " ", "model", "s">>,
       <<"eligibility">>,
       <<"eligible">> >>

ModelYearsKeywords ==
    << <<"eligible", " ", "model", " ", "year", "s">>,
       <<"model", " ", "year", "s">>,
       <<"model", " ", "year">> >>

locateColumns(headerRow) ==
    [tierIdx        |-> findColumnIndex(headerRow, <<"tier">>),
     rateIdx        |-> findColumnIndex(headerRow, <<"interest", " ", "rate">>),
     termIdx        |-> findColumnIndex(headerRow, <<"repayment", " ", "term">>),
     dpIdx          |-> findColumnIndex(headerRow, <<"down", " ", "payment">>),
     capIdx         |-> findColumnIndex(headerRow, <<"front", "-", "end", " ", "cap">>),
     feeIdx         |-> findColumnIndex(headerRow, <<"dealer", " ", "fee">>),
     eligibilityIdx |-> findAnyColumnIndex(headerRow, EligibilityKeywords),
     productIdx     |-> findAnyColumnIndex(headerRow, << <<"product">> >>),
     modelYearsIdx  |-> findAnyColumnIndex(headerRow, ModelYearsKeywords)]

programNameIdxOf(headerRow) == findColumnIndex(headerRow, <<"program", " ", "name">>)

programStubIdxOf(headerRow) == findColumnIndex(headerRow, <<"program", " ", "name", " ", "stub">>)

\* the key of one row in the groupMap loop ('' when the row is left out)
groupKey(row, programStubIdx, programNameIdx) ==
    IF programStubIdx # -1 /\ Cell(row, programStubIdx) # <<>>
    THEN Trim(Cell(row, programStubIdx))
    ELSE IF programNameIdx # -1 /\ Cell(row, programNameIdx) # <<>>
    THEN Trim(Cell(row, programNameIdx))
    ELSE <<>>

\* the keys of groupMap in insertion order
groupKeys(dataRows, programStubIdx, programNameIdx) ==
    LET add(keys, key) == IF key = <<>> THEN keys ELSE SetAdd(keys, key)
        f[n \in 0..Len(dataRows)] ==
            IF n = 0 THEN <<>>
            ELSE add(f[n - 1], groupKey(dataRows[n], programStubIdx, programNameIdx))
    IN  f[Len(dataRows)]

\* the list of a key overwritten by each of its rows: only the last row stays
lastRowForProgram(dataRows, key, programStubIdx, programNameIdx) ==
    LET last(n) == IF n = 0 THEN <<>> ELSE <<dataRows[n]>>
    IN  last(0 - MinOr({0 - n : n \in {m \in 1..Len(dataRows) :
                           groupKey(dataRows[m], programStubIdx, programNameIdx) = key}}, 0))

\* groupMap.get(key)
rowsForProgram(dataRows, key, programStubIdx, programNameIdx) ==
    SelectSeq(dataRows, LAMBDA r : groupKey(r, programStubIdx, programNameIdx) = key)

\* the heading chosen for a group: the first non-blank Program Name of its rows
headingOf(key, rowsOfKey, programNameIdx) ==
    LET named(i) ==
            IF programNameIdx # -1 /\ i # 0 THEN Trim(Cell(rowsOfKey[i], programNameIdx)) ELSE key
    IN  named(MinOr({i \in 1..Len(rowsOfKey) :
                        Cell(rowsOfKey[i], programNameIdx) # <<>>
                        /\ Trim(Cell(rowsOfKey[i], programNameIdx)) # <<>>}, 0))

\* A block with the groupMap key it was built for.  The key is bookkeeping of the
\* model: the markup does not carry it.
Keyed(blocks, key) == [i \in 1..Len(blocks) |-> [group |-> key] @@ blocks[i]]

RECURSIVE groupBlocks(_, _, _, _, _, _)
groupBlocks(keys, headerRow, dataRows, indices, programStubIdx, programNameIdx) ==
    LET one(key, rowsOfKey) ==
            Keyed(buildPromoBlock(headingOf(key, rowsOfKey, programNameIdx),
                                  headerRow, rowsOfKey, indices), key)
    IN  IF keys = <<>> THEN <<>>
        ELSE one(Head(keys), rowsForProgram(dataRows, Head(keys), programStubIdx, programNameIdx))
                 \o groupBlocks(Tail(keys), headerRow, dataRows, indices,
                                programStubIdx, programNameIdx)

PromotionalRates == <<"Promotional", " ", "Rates">>

\* the single block of the sheet with neither placeholder: '' for no rows and
\* for a sheet with nothing to pivot
generateRateSheetHtmlBare(rows) ==
    IF rows = <<>> THEN <<>>
    ELSE buildPromoBlock(PromotionalRates, rows[1], Tail(rows), locateColumns(rows[1]))

generateRateSheetHtml(rows) ==
    LET orPlaceholder(html) ==
            IF html = <<>> THEN <<Paragraph("No promo data found.")>> ELSE html
        grouped(headerRow, dataRows, indices, programNameIdx, programStubIdx, keys) ==
            IF programStubIdx # -1 \/ programNameIdx # -1
            THEN IF keys = <<>>
                 THEN Keyed(buildPromoBlock(
                                IF dataRows # <<>> /\ Cell(dataRows[1], programNameIdx) # <<>>
                                THEN Trim(Cell(dataRows[1], programNameIdx))
                                ELSE PromotionalRates,
                                headerRow, dataRows, indices), <<>>)
                 ELSE groupBlocks(keys, headerRow, dataRows, indices,
                                  programStubIdx, programNameIdx)
            ELSE Keyed(buildPromoBlock(PromotionalRates, headerRow, dataRows, indices), <<>>)
        located(headerRow, dataRows, indices, programNameIdx, programStubIdx) ==
            IF indices.tierIdx = -1 \/ indices.rateIdx = -1 \/ indices.termIdx = -1
            THEN simpleTableHtml(rows)
            ELSE orPlaceholder(grouped(headerRow, dataRows, indices, programNameIdx, programStubIdx,
                                       groupKeys(dataRows, programStubIdx, programNameIdx)))
    IN  IF rows = <<>> THEN <<Paragraph("No data found.")>>
        ELSE located(rows[1], Tail(rows), locateColumns(rows[1]),
                     programNameIdxOf(rows[1]), programStubIdxOf(rows[1]))

\* server.js: app.post('/api/upload-csv'), its response
apiUploadCsv(file) ==
    IF file.kind = "none" THEN [status |-> 400, text |-> "No CSV file uploaded."]
    ELSE IF file.kind = "unparsable" THEN [status |-> 500, text |-> "Error processing CSV file."]
    ELSE [status |-> 200, html |-> generateRateSheetHtml(file.records)]

----------------------------------------------------------------------------
(* part_000: /upload *)

\* what a template literal prints for a cell the row does not have
Undefined == <<"undefined">>

TableGroup == <<"Table", " ", "Group">>
EligibleProducts == <<"Eligible", " ", "Product", "s">>
EligibleProductsModels == <<"Eligible", " ", "Product", "s", "/", "Model", "s">>
StandardProgram == <<"STANDARD", " ", "PROGRAM">>

cleanRow(row) == [i \in 1..Len(row) |-> clean(row[i])]

\* fileData.split("\n").map(line => line.split(",")).filter(r => r.length > 1),
\* the file given as its lines already split at the commas
splitRows(lines) == SelectSeq(lines, LAMBDA r : Len(r) > 1)

\* rows.slice(0, n)
Slice(rows, n) == SubSeq(rows, 1, IF Len(rows) < n THEN Len(rows) ELSE n)

TypeProbeRows == 10

\* rows is not empty (rows[0].map throws on an empty sheet: see upload)
detectCsvType(rows) ==
    LET first10(probe) == Join([i \in 1..Len(probe) |-> Join(probe[i], <<" ">>)], <<" ">>)
        typeOf(headerRow) ==
            IF Includes(headerRow, TableGroup) /\ Includes(headerRow, EligibleProducts) THEN "promo"
            ELSE IF Includes(toUpperCase(first10(Slice(rows, TypeProbeRows))), StandardProgram)
                 THEN "standard"
            ELSE "unknown"
    IN  typeOf(Join(cleanRow(rows[1]), <<" ", "|", " ">>))

Thrown(message) == [threw |-> TRUE, message |-> message]
Returned(value) == [threw |-> FALSE, value |-> value]

\* a canonical array index: such keys come first, ascending, in Object.keys
isArrayIndex(k) ==
    /\ k # <<>>
    /\ \A i \in 1..Len(k) : k[i] \in Digits
    /\ (Len(k) > 1 => k[1] # "0")

keyCompare(a, b) ==
    IF isArrayIndex(a) /\ isArrayIndex(b) THEN parseInt(a) - parseInt(b)
    ELSE IF isArrayIndex(a) THEN -1
    ELSE IF isArrayIndex(b) THEN 1
    ELSE 0

\* Object.keys of an object whose keys were inserted in the order `inserted`
ObjectKeys(inserted) == SortBy(inserted, keyCompare)

\* the grouped object of parsePromo: its keys in Object.keys order and, per key,
\* the cleaned rows and the product line
parsePromo(rows) ==
    LET \* productLine: the first truthy row[productIndex] of the group; a row that
        \* has no such cell leaves undefined there, '' stays ''
        lineOf(rs, productIndex) ==
            LET first(i) ==
                    IF i # 0 THEN Cell(rs[i], productIndex)
                    ELSE IF productIndex < Len(rs[Len(rs)]) THEN <<>> ELSE Undefined
            IN  first(MinOr({i \in 1..Len(rs) : Cell(rs[i], productIndex) # <<>>}, 0))
        groupOf(g, rs, productIndex) ==
            [group |-> g, rows |-> rs, productLine |-> lineOf(rs, productIndex)]
        inserted(kept, groupIndex) ==
            LET f[n \in 0..Len(kept)] ==
                    IF n = 0 THEN <<>> ELSE SetAdd(f[n - 1], Cell(kept[n], groupIndex))
            IN  f[Len(kept)]
        byKey(kept, keys, groupIndex, productIndex) ==
            [i \in 1..Len(keys) |->
                groupOf(keys[i], SelectSeq(kept, LAMBDA r : Cell(r, groupIndex) = keys[i]),
                        productIndex)]
        grouped(kept, groupIndex, productIndex) ==
            byKey(kept, ObjectKeys(inserted(kept, groupIndex)), groupIndex, productIndex)
        indexed(cleaned, groupIndex, productIndex, tiersIndex) ==
            IF groupIndex = -1 \/ productIndex = -1 \/ tiersIndex = -1
            THEN Thrown("CSV missing required promotional headers.")
            ELSE Returned(grouped(SelectSeq(cleaned, LAMBDA r : Cell(r, groupIndex) # <<>>),
                                  groupIndex, productIndex))
        headed(header) ==
            indexed([i \in 1..(Len(rows) - 1) |-> cleanRow(rows[i + 1])],
                    FirstIndex(header, LAMBDA c : c = TableGroup),
                    FirstIndex(header, LAMBDA c : c = EligibleProductsModels),
                    FirstIndex(header, LAMBDA c : c = <<"Tier", "s">>))
    IN  headed(cleanRow(rows[1]))

StandardWindow == 23

Partner == <<"PARTNER">>
NonPartner == <<"NON", "-", "PARTNER">>
Used == <<"USED">>

\* r[0] && r[0].toUpperCase().includes(word), r[0] as given
firstCellHas(r, word) == Cell(r, 0) # <<>> /\ Includes(toUpperCase(Cell(r, 0)), word)

\* One pass of the loop of parseStandard; st = [tables, currentTable]
standardStep(st, i, row, startIndex, header) ==
    LET open(s, title) ==
            [tables       |-> IF s.currentTable.rows # <<>>
                              THEN Append(s.tables, s.currentTable) ELSE s.tables,
             currentTable |-> [title |-> title, headers |-> header, rows |-> <<>>]]
        mark(s, joined, word, title) == IF Includes(joined, word) THEN open(s, title) ELSE s
        titled(joined) ==
            mark(mark(mark(st, joined, Partner, "Partner & Subvented"),
                      joined, NonPartner, "Non-Partner Unsubvented"),
                 joined, Used, "Used")
        push(s) ==
            IF i > startIndex /\ firstCellHas(row, <<"TIER">>)
            THEN [s EXCEPT !.currentTable.rows = Append(@, row)]
            ELSE s
    IN  push(titled(Join(row, <<" ">>)))

parseStandard(rows) ==
    LET result(last) ==
            Returned(IF last.currentTable.rows # <<>>
                     THEN Append(last.tables, last.currentTable) ELSE last.tables)
        scan(slice, startIndex, header) ==
            LET f[n \in 0..Len(slice)] ==
                    IF n = 0
                    THEN [tables |-> <<>>,
                          currentTable |-> [title |-> "", headers |-> header, rows |-> <<>>]]
                    ELSE standardStep(f[n - 1], n - 1, cleanRow(slice[n]), startIndex, header)
            IN  result(f[Len(slice)])
        found(slice, startIndex) ==
            IF startIndex = -1 THEN Thrown("Unable to detect Standard table header row.")
            ELSE scan(slice, startIndex, cleanRow(slice[startIndex + 1]))
        window(slice) == found(slice, FirstIndex(slice, LAMBDA r : firstCellHas(r, <<"TIER", "S">>)))
    IN  window(Slice(rows, StandardWindow))

\* <h3>, <thead> and <tbody> of one table: the texts go in as clean() leaves them
generateTableHTML(table) ==
    [title |-> table.title,
     head  |-> cleanRow(table.headers),
     body  |-> [i \in 1..Len(table.rows) |-> cleanRow(table.rows[i])]]

generateStandardHTML(tables, oem) ==
    << [kind   |-> "standard-sheet",
        oem    |-> oem,
        tables |-> [i \in 1..Len(tables) |-> generateTableHTML(tables[i])]] >>

\* the header row of each table is the first data row of its group
generatePromoHTML(groups, oem) ==
    << [kind   |-> "promo-sheet",
        oem    |-> oem,
        groups |-> [i \in 1..Len(groups) |->
                      [title       |-> groups[i].group,
                       head        |-> cleanRow(groups[i].rows[1]),
                       body        |-> [j \in 1..Len(groups[i].rows) |-> cleanRow(groups[i].rows[j])],
                       productLine |-> groups[i].productLine]]] >>

Failure(message) == [status |-> 200, success |-> FALSE, error |-> message]
Success(html) == [status |-> 200, success |-> TRUE, html |-> html]

\* app.post("/upload"): body = [hasOem, oem, hasFile, lines]
upload(body) ==
    LET promo(groups, oem) ==
            IF groups.threw THEN Failure(groups.message)
            ELSE Success(generatePromoHTML(groups.value, oem))
        standard(tables, oem) ==
            IF tables.threw THEN Failure(tables.message)
            ELSE Success(generateStandardHTML(tables.value, oem))
        typed(rows, type, oem) ==
            IF type = "promo" THEN promo(parsePromo(rows), oem)
            ELSE IF type = "standard" THEN standard(parseStandard(rows), oem)
            ELSE Failure("CSV format not recognized (neither promotional nor standard).")
        parsed(rows, oem) ==
            IF rows = <<>> THEN Failure("Cannot read properties of undefined (reading 'map')")
            ELSE typed(rows, detectCsvType(rows), oem)
    IN  IF ~body.hasOem THEN Failure("Cannot read properties of undefined (reading 'trim')")
        ELSE IF ~body.hasFile THEN [status |-> 400, text |-> "No CSV file uploaded."]
        ELSE parsed(splitRows(body.lines), Trim(body.oem))

----------------------------------------------------------------------------
(* part_001: /upload-csv *)

colProduct == <<"Product">>
colYears == <<"Eligible", " ", "Model", " ", "Year", "s">>
colTerm == <<"Repayment", " ", "Term">>
colRate(tier) == <<"Promo", " ", "Rate", " ", "RT", " ">> \o tier
colFee(tier) == <<"Dealer", " ", "Fee", " ", "RT", " ">> \o tier

\* tierOrder, as the suffixes of the column names and of the tier names
tierOrder == << <<"1">>, <<"1", ".", "1", "2">>, <<"2">>, <<"2", ".", "1">>, <<"2", ".", "2">> >>

tierNameOf(tier) == <<"Tier", " ">> \o tier

polarisColumns(headerRow) ==
    LET at(name) == FirstIndex(headerRow, LAMBDA h : h = name)
    IN  [idxProduct |-> at(colProduct),
         idxYears   |-> at(colYears),
         idxTerm    |-> at(colTerm),
         idxRate    |-> [t \in 1..Len(tierOrder) |-> at(colRate(tierOrder[t]))],
         idxFee     |-> [t \in 1..Len(tierOrder) |-> at(colFee(tierOrder[t]))]]

groupKeyOf(product, years) == product \o <<"|", "|", "|">> \o years

\* the row is skipped: no product, no years, blank term
isEmptyRow(row, idx) ==
    /\ Trim(Cell(row, idx.idxProduct)) = <<>>
    /\ Trim(Cell(row, idx.idxYears)) = <<>>
    /\ Trim(Cell(row, idx.idxTerm)) = <<>>

NoGroup == [product |-> <<>>, years |-> <<>>, terms |-> <<>>,
            tierRates |-> [t \in 1..5 |-> <<>>], hasTier |-> [t \in 1..5 |-> FALSE],
            tierFees |-> [t \in 1..5 |-> <<>>]]

\* setTier(tierName, rateIdx, feeIdx) on a group, for the t-th tier of tierOrder
setTier(group, t, row, termLabel, idx) ==
    LET set(rate, fee) ==
            IF idx.idxRate[t] = -1 \/ rate = <<>> THEN group
            ELSE [group EXCEPT
                     !.hasTier[t]   = TRUE,
                     !.tierRates[t] = (termLabel :> rate) @@ @,
                     !.tierFees[t]  = IF idx.idxFee[t] # -1 /\ fee # <<>> THEN fee ELSE @]
    IN  set(Trim(Cell(row, idx.idxRate[t])), Trim(Cell(row, idx.idxFee[t])))

\* One pass of dataRows.forEach on the group of the row
groupRow(group, row, idx) ==
    LET tiers(g0, termLabel) ==
            setTier(setTier(setTier(setTier(setTier(g0, 1, row, termLabel, idx),
                2, row, termLabel, idx), 3, row, termLabel, idx), 4, row, termLabel, idx),
                5, row, termLabel, idx)
        \* product and years are those of the row that created the group
        labelled(termLabel) ==
            tiers([group EXCEPT !.product = IF group.terms = <<>>
                                            THEN Trim(Cell(row, idx.idxProduct)) ELSE @,
                                !.years   = IF group.terms = <<>>
                                            THEN Trim(Cell(row, idx.idxYears)) ELSE @,
                                !.terms   = SetAdd(@, termLabel)], termLabel)
    IN  labelled(termLabelFrom(Cell(row, idx.idxTerm)))

rowKey(row, idx) == groupKeyOf(Trim(Cell(row, idx.idxProduct)), Trim(Cell(row, idx.idxYears)))

\* the groups Map: its keys in insertion order, and the group of each key
polarisKeys(dataRows, idx) ==
    LET f[n \in 0..Len(dataRows)] ==
            IF n = 0 THEN <<>>
            ELSE IF isEmptyRow(dataRows[n], idx) THEN f[n - 1]
            ELSE SetAdd(f[n - 1], rowKey(dataRows[n], idx))
    IN  f[Len(dataRows)]

polarisGroup(dataRows, key, idx) ==
    LET f[n \in 0..Len(dataRows)] ==
            IF n = 0 THEN NoGroup
            ELSE IF isEmptyRow(dataRows[n], idx) \/ rowKey(dataRows[n], idx) # key THEN f[n - 1]
            ELSE groupRow(f[n - 1], dataRows[n], idx)
    IN  f[Len(dataRows)]

\* the comparator of termsSorted.sort
polarisTermCompare(a, b) ==
    LET cmp(na, nb) == IF ~isNaN(na) /\ ~isNaN(nb) THEN NumCmp(na, nb) ELSE localeCompare(a, b)
    IN  cmp(parseFloat(a), parseFloat(b))

sortTerms(terms) == SortBy(terms, polarisTermCompare)

\* buildTableBlock: every header cell, body cell and the eligibility text escaped
buildTableBlock(headerCells, rows, eligibleText) ==
    [kind |-> "polaris",
     head |-> [i \in 1..Len(headerCells) |-> escapeHtmlPolaris(headerCells[i])],
     rows |-> [i \in 1..Len(rows) |->
                 [j \in 1..Len(rows[i]) |-> escapeHtmlPolaris(rows[i][j])]],
     elig |-> IF eligibleText # <<>> THEN <<escapeHtmlPolaris(eligibleText)>> ELSE <<>>]

\* the block of one group, <<>> when it has no tier
polarisBlock(group) ==
    LET eligibleText == IF group.years # <<>>
                        THEN group.product \o <<" ", "(">> \o group.years \o <<")">>
                        ELSE group.product
        rowCells(t, termsSorted) ==
            <<tierNameOf(tierOrder[t])>>
                \o [i \in 1..Len(termsSorted) |->
                      IF termsSorted[i] \in DOMAIN group.tierRates[t]
                      THEN group.tierRates[t][termsSorted[i]] ELSE <<>>]
                \o << <<"0", "%">>, <<"1", "3", "0", "%">>, group.tierFees[t] >>
        block(termsSorted, tiers) ==
            IF tiers = <<>> THEN <<>>
            ELSE <<buildTableBlock(
                       << <<"Tier", "s">> >> \o termsSorted
                           \o << <<"Down", " ", "Payment">>, <<"Front", "-", "End", " ", "Cap">>,
                                 <<"Dealer", " ", "Fee">> >>,
                       [i \in 1..Len(tiers) |-> rowCells(tiers[i], termsSorted)],
                       eligibleText)>>
    IN  block(sortTerms(group.terms), SelectSeq(<<1, 2, 3, 4, 5>>, LAMBDA t : group.hasTier[t]))

RECURSIVE polarisBlocks(_, _, _)
polarisBlocks(keys, dataRows, idx) ==
    IF keys = <<>> THEN <<>>
    ELSE Keyed(polarisBlock(polarisGroup(dataRows, Head(keys), idx)), Head(keys))
             \o polarisBlocks(Tail(keys), dataRows, idx)

\* the sanity check without Promo Rate RT 2
missingRequiredLoose(idx) ==
    idx.idxProduct = -1 \/ idx.idxYears = -1 \/ idx.idxTerm = -1 \/ idx.idxRate[1] = -1

\* the sanity check: Product, Eligible Model Years, Repayment Term, Promo Rate RT 1
\* and Promo Rate RT 2 (the third tier of tierOrder)
missingRequired(idx) ==
    idx.idxProduct = -1 \/ idx.idxYears = -1 \/ idx.idxTerm = -1
        \/ idx.idxRate[1] = -1 \/ idx.idxRate[3] = -1

buildTablesHtmlFromCsv(records) ==
    LET orPlaceholder(html) ==
            IF html = <<>> THEN Returned(<<Paragraph("No promo rows found in CSV.")>>)
            ELSE Returned(html)
        indexed(dataRows, idx) ==
            IF missingRequired(idx)
            THEN Thrown("CSV format not recognized. Expected columns ...")
            ELSE orPlaceholder(polarisBlocks(polarisKeys(dataRows, idx), dataRows, idx))
    IN  IF Len(records) < 2 THEN Returned(<<Paragraph("No data found in CSV.")>>)
        ELSE indexed(Tail(records),
                     polarisColumns([i \in 1..Len(records[1]) |-> Trim(records[1][i])]))

startMarker == "<!-- TABLES_START -->"
endMarker == "<!-- TABLES_END -->"

\* template.html, as the pieces of text around and between the two markers
templateHtml == <<"<body>", startMarker, "old tables", endMarker, "</body>">>

NoDoc == [written |-> FALSE]

\* the pieces of a document: text of the template, or an interpolated fragment
Text(t) == [kind |-> "text", text |-> t]
Html(fragment) == [kind |-> "html", html |-> fragment]
Texts(ts) == [i \in 1..Len(ts) |-> Text(ts[i])]

\* `${before}\n${tablesHtml}\n` without the rest of the template
spliceJoinedCut(before, tablesHtml, after) ==
    Texts(before) \o <<Text("\n"), Html(tablesHtml), Text("\n")>>

\* `${before}\n${tablesHtml}\n${after}`
spliceJoined(before, tablesHtml, after) ==
    Texts(before) \o <<Text("\n"), Html(tablesHtml), Text("\n")>> \o Texts(after)

\* the markers are looked for, their order is not
markersMissingLoose(startIndex, endIndex) == startIndex = -1 \/ endIndex = -1

\* startIndex === -1 || endIndex === -1 || endIndex <= startIndex
markersMissing(startIndex, endIndex) ==
    startIndex = -1 \/ endIndex = -1 \/ endIndex <= startIndex

\* the text written to promo_output_polaris.html, or the error thrown
applyTablesToTemplate(templateFile, tablesHtml) ==
    LET splice(startIndex, endIndex) ==
            IF markersMissing(startIndex, endIndex)
            THEN Thrown("Could not find TABLES_START / TABLES_END markers in template.html")
            ELSE Returned([written |-> TRUE,
                           text |-> spliceJoined(SubSeq(templateFile, 1, startIndex + 1),
                                                 tablesHtml,
                                                 SubSeq(templateFile, endIndex + 1,
                                                        Len(templateFile)))])
    IN  splice(FirstIndex(templateFile, LAMBDA t : t = startMarker),
               FirstIndex(templateFile, LAMBDA t : t = endMarker))

\* the fragment interpolated into a written document
tablesIn(doc) ==
    LET at(i) == doc.text[i].html
    IN  at(CHOOSE i \in 1..Len(doc.text) : doc.text[i].kind = "html")

\* app.post("/upload-csv"): the response and the output document it leaves
uploadCsv(file, templateFile, doc) ==
    LET failed(message) ==
            [res |-> [status |-> 500, text |-> "Error updating HTML template: ",
                      error |-> message], doc |-> doc]
        save(written) ==
            IF written.threw THEN failed(written.message)
            ELSE [res |-> [status |-> 200, text |-> "CSV uploaded and HTML updated successfully."],
                  doc |-> written.value]
        built(tablesHtml) ==
            IF tablesHtml.threw THEN failed(tablesHtml.message)
            ELSE save(applyTablesToTemplate(templateFile, tablesHtml.value))
    IN  IF file.kind = "none"
        THEN [res |-> [status |-> 400, text |-> "No file uploaded."], doc |-> doc]
        ELSE IF file.kind = "unparsable"
        THEN [res |-> [status |-> 500, text |-> "Error parsing CSV file. Please check the format."],
              doc |-> doc]
        ELSE built(buildTablesHtmlFromCsv(file.records))

----------------------------------------------------------------------------
(* The uploads the handlers are driven with *)

MaxRows == 2        \* data rows of a sheet
MaxSortRows == 3    \* data rows of a sheet that varies only the term

RECURSIVE Product(_)
Product(sets) ==
    IF sets = <<>> THEN {<<>>}
    ELSE {<<x>> \o r : x \in Head(sets), r \in Product(Tail(sets))}

SeqsUpTo(S, n) == UNION {[1..k -> S] : k \in 0..n}

\* the sheets with header `header`, at most n data rows, column i drawn from cells[i]
SheetsOf(header, cells, n) == {<<header>> \o body : body \in SeqsUpTo(Product(cells), n)}

hTiers == <<"Tier", "s">>
hInterestRate == <<"Interest", " ", "Rate">>
hRepaymentTerm == <<"Repayment", " ", "Term">>
hProgramNameStub == <<"Program", " ", "Name", " ", "Stub">>
hEligibilityList == <<"Eligibility", " ", "List">>
hProduct == <<"Product">>
hNotes == <<"Notes">>

Blank == <<" ">>

\* tier, rate, term; one row may be all white space
PlainSheets ==
    LET header == <<hTiers, hInterestRate, hRepaymentTerm>>
        rows   == Product(<< {<<>>, <<"1">>, <<"Tier", " ", "2">>},
                             {<<>>, <<"4">>, <<" ", "<", "5">>},
                             {<<>>, <<"3", "6", " ", "Month", "s">>, <<"3", "6", "M">>} >>)
                  \cup {<<Blank, Blank, Blank>>}
    IN  {<<header>> \o body : body \in SeqsUpTo(rows, MaxRows)}

\* grouped by Program Name Stub
StubSheets ==
    SheetsOf(<<hProgramNameStub, hTiers, hInterestRate, hRepaymentTerm>>,
             << {<<>>, <<"A">>, <<"B">>},
                {<<"1">>, <<"Tier", " ", "2">>},
                {<<"4">>, <<" ", "<", "5">>},
                {<<"3", "6", "M">>, <<"6", "0", " ", "Month", "s">>} >>,
             MaxRows)

\* with an eligibility column
EligSheets ==
    SheetsOf(<<hTiers, hInterestRate, hRepaymentTerm, hEligibilityList>>,
             << {<<>>, <<"1">>}, {<<>>, <<"4">>}, {<<"3", "6", "M">>},
                {<<>>, <<"X">>, <<"Y", "&">>} >>,
             MaxRows)

\* no tier, rate or term column: the simple table
GenericSheets ==
    SheetsOf(<<hProduct, hNotes>>,
             << {<<>>, Blank, <<"X">>}, {<<>>, Blank, <<"<", "b", ">">>} >>,
             MaxRows)

\* one tier, one rate, the terms in every order
SortSheets ==
    SheetsOf(<<hTiers, hInterestRate, hRepaymentTerm>>,
             << {<<"1">>}, {<<"4">>},
                {<<"3", "6", "M">>, <<"6", "0", "M">>, <<"8", "4", "M">>, <<"9", "M">>, <<"x">>} >>,
             MaxSortRows)

\* the promotional layout of part_000, given to server.js
TableGroupSheets ==
    SheetsOf(<<<<"Table", " ", "Group">>, <<"Eligible", " ", "Product", "s", "/", "Model", "s">>,
               hTiers, <<"3", "6", "M">>>>,
             << {<<"A">>}, {<<"X">>}, {<<"Tier", " ", "1">>}, {<<"4">>} >>,
             1)

\* with a Down Payment and a Dealer Fee column: one tier, two terms
MetaSheets ==
    SheetsOf(<<hTiers, hInterestRate, hRepaymentTerm, <<"Down", " ", "Payment">>,
               <<"Dealer", " ", "Fee">>>>,
             << {<<"1">>}, {<<"4">>}, {<<"3", "6", "M">>, <<"6", "0", "M">>},
                {<<>>, <<"0", "%">>}, {<<>>, <<"1", "%">>, <<"2", "%">>} >>,
             MaxRows)

\* with Product and Eligible Model Years, and no program column
ProductSheets ==
    SheetsOf(<<hProduct, <<"Eligible", " ", "Model", " ", "Year", "s">>,
               hTiers, hInterestRate, hRepaymentTerm>>,
             << {<<>>, <<"X">>, <<"Y">>}, {<<>>, <<"2", "0", "2", "5">>},
                {<<"1">>}, {<<"4">>}, {<<"3", "6", "M">>} >>,
             MaxRows)

ServerSheets ==
    {<<>>} \cup PlainSheets \cup StubSheets \cup EligSheets \cup GenericSheets \cup SortSheets
        \cup TableGroupSheets \cup MetaSheets \cup ProductSheets

\* POST /api/upload-csv: no file, a file csv-parse rejects, or the records it yields
ServerUploads ==
    {[kind |-> "none"], [kind |-> "unparsable"]}
        \cup {[kind |-> "csv", records |-> r] : r \in ServerSheets}

MaxLines == 3       \* lines after the first of a standard-program file

Tier1 == <<"Tier", " ", "1">>
h36M == <<"3", "6", "M">>

\* Table Group, Eligible Products/Models, Tiers, 36M
PromoFiles ==
    SheetsOf(<<TableGroup, EligibleProductsModels, hTiers, h36M>>,
             << {<<>>, <<"A">>, <<"B">>},
                {<<>>, <<"X">>, <<"<", "b", ">">>},
                {Tier1},
                {<<"4">>, <<"5", "&">>} >>,
             MaxRows)

\* a promo header without one of the three required columns, and a header of no layout
BadHeaderFiles ==
    SheetsOf(<<TableGroup, EligibleProducts, hTiers, h36M>>,
             << {<<"A">>}, {<<"X">>}, {Tier1}, {<<"4">>} >>, MaxRows)
    \cup SheetsOf(<<TableGroup, EligibleProductsModels, h36M>>,
             << {<<"A">>}, {<<"X">>}, {<<"4">>} >>, MaxRows)
    \cup SheetsOf(<<hTiers, h36M>>, << {Tier1}, {<<"4">>} >>, MaxRows)

\* rows shorter than the header, and a group named like an array index
RaggedFiles ==
    {<< <<TableGroup, hTiers, EligibleProductsModels>> >> \o body :
        body \in SeqsUpTo({<<<<"A">>, Tier1>>, <<<<"B">>, Tier1, <<"X">>>>, <<<<"2">>, Tier1, <<"Y">>>>},
                          MaxRows)}

StandardLines ==
    { <<<<"TIER", "S">>, <<"3", "6">>>>,
      <<<<"PARTNER">>, <<>>>>,
      <<<<"NON", "-", "PARTNER">>, <<>>>>,
      <<<<"USED">>, <<>>>>,
      <<Tier1, <<"4", "<">>>>,
      <<<<>>, <<>>>> }

StandardFiles ==
    {<< <<StandardProgram, <<>>>> >> \o body : body \in SeqsUpTo(StandardLines, MaxLines)}

\* a standard-program file with its header and a PARTNER section: rows of
\* tiers, blank rows and a USED section after them
StandardSectionFiles ==
    {<< <<StandardProgram, <<>>>>, <<<<"TIER", "S">>, <<"3", "6">>>>, <<<<"PARTNER">>, <<>>>> >>
         \o body :
        body \in SeqsUpTo({<<Tier1, <<"4">>>>, <<<<>>, <<>>>>, <<<<"USED">>, <<>>>>}, MaxLines)}

\* an empty file and a file of one line without a comma leave no row
UploadFiles ==
    {<<>>, << <<<<"x">>>> >>} \cup PromoFiles \cup BadHeaderFiles \cup RaggedFiles \cup StandardFiles
        \cup StandardSectionFiles

BRP == <<"BRP">>

\* POST /upload: the form without oem, without file, or with both
UploadBodies ==
    {[hasOem |-> FALSE, oem |-> <<>>, hasFile |-> TRUE, lines |-> <<>>],
     [hasOem |-> TRUE, oem |-> BRP, hasFile |-> FALSE, lines |-> <<>>]}
        \cup {[hasOem |-> TRUE, oem |-> BRP, hasFile |-> TRUE, lines |-> f] : f \in UploadFiles}

PolarisHeader == <<colProduct, colYears, colTerm, colRate(<<"1">>), colRate(<<"2">>)>>

Mens == <<"Men", "'", "s">>
Y2025 == <<"2", "0", "2", "5">>

PolarisRows ==
    Product(<< {Mens}, {Y2025}, {<<>>, <<"3", "6", ".", "0">>, <<"3", "6">>},
               {<<>>, <<"4">>, <<"<", "5">>}, {<<>>, <<"6">>} >>)
        \cup {<<Mens, <<>>, <<"3", "6">>, <<"4">>, <<>>>>,
              <<<<>>, <<>>, <<>>, <<>>, <<>>>>,
              <<Blank, Blank, Blank, Blank, Blank>>}

PolarisSheets == {<<PolarisHeader>> \o body : body \in SeqsUpTo(PolarisRows, MaxRows)}

\* the header without Promo Rate RT 2, and without Repayment Term
PolarisBadSheets ==
    SheetsOf(<<colProduct, colYears, colTerm, colRate(<<"1">>)>>,
             << {Mens}, {Y2025}, {<<"3", "6">>}, {<<"4">>} >>, MaxRows)
    \cup SheetsOf(<<colProduct, colYears, colRate(<<"1">>), colRate(<<"2">>)>>,
             << {Mens}, {Y2025}, {<<"4">>}, {<<"6">>} >>, MaxRows)

PolarisSortSheets ==
    SheetsOf(PolarisHeader,
             << {Mens}, {Y2025},
                {<<"3", "6">>, <<"6", "0", ".", "0">>, <<"8", "4", "M">>, <<"9">>, <<"x">>},
                {<<"4">>}, {<<>>} >>,
             MaxSortRows)

\* with Dealer Fee RT 1: one tier, two terms
PolarisFeeSheets ==
    SheetsOf(PolarisHeader \o <<colFee(<<"1">>)>>,
             << {Mens}, {Y2025}, {<<"3", "6">>, <<"6", "0">>}, {<<"4">>}, {<<>>},
                {<<>>, <<"1", "%">>, <<"2", "%">>} >>,
             MaxRows)

\* POST /upload-csv
PolarisUploads ==
    {[kind |-> "none"], [kind |-> "unparsable"]}
        \cup {[kind |-> "csv", records |-> r] :
                 r \in {<<>>} \cup PolarisSheets \cup PolarisBadSheets \cup PolarisSortSheets
                           \cup PolarisFeeSheets}

\* template.html as it may be found: well formed (with text around the markers,
\* without, with markers repeated), without the start marker, without the end
\* marker, with neither, with the end marker first, with an end marker before
\* a well-formed pair
Templates ==
    {templateHtml,
     <<startMarker, endMarker>>,
     <<"<body>", startMarker, "old", startMarker, "tables", endMarker, "x", endMarker>>,
     <<"<body>", "old tables", endMarker, "</body>">>,
     <<"<body>", startMarker, "old tables">>,
     <<>>,
     <<"<body>", endMarker, "old tables", startMarker, "</body>">>,
     <<endMarker, "<body>", startMarker, "old tables", endMarker, "</body>">>}

\* POST /upload-csv, for the splice: no file, an empty sheet, sheets of one row,
\* a sheet without the Repayment Term column
SpliceUploads ==
    {[kind |-> "none"], [kind |-> "unparsable"], [kind |-> "csv", records |-> <<>>],
     [kind |-> "csv", records |-> <<PolarisHeader, <<Mens, Y2025, <<"3", "6">>, <<"4">>, <<"6">>>>>>],
     [kind |-> "csv", records |-> <<PolarisHeader, <<BRP, <<>>, <<"6", "0">>, <<"<", "5">>, <<>>>>>>],
     [kind |-> "csv", records |-> <<<<colProduct, colYears, colRate(<<"1">>), colRate(<<"2">>)>>,
                                    <<Mens, Y2025, <<"4">>, <<"6">>>>>>]}

Requests ==
    {[app |-> "server", file |-> f] : f \in ServerUploads}
        \cup {[app |-> "upload", body |-> b] : b \in UploadBodies}
        \cup {[app |-> "polaris", file |-> f] : f \in PolarisUploads}

----------------------------------------------------------------------------
(* The state machine: one request from its arrival to its response *)

NoRequest == [app |-> "none"]
NoResponse == [status |-> 0]
NoLabel == [by |-> "none", out |-> <<>>]

----------------------------------------------------------------------------
(* server.js: the cached fragment and its refresh from Google Sheets *)

MaxCalls == 2       \* requests to the cache in progress at once
MaxClock == 3       \* the last time the clock shows

Slots == 1..MaxCalls

\* process.env: RATE_SHEET_ID is set or not; GOOGLE_SERVICE_ACCOUNT is unset, is
\* not JSON, or is JSON
Envs == [sheetId : BOOLEAN, account : {"unset", "malformed", "json"}]

EnvSet == [sheetId |-> TRUE, account |-> "json"]

\* a slot without a request
NoCall == [route |-> "none", pc |-> "idle", title |-> ""]

\* the tabs of the spreadsheet: a rate sheet and an empty tab (no data.values)
TabA ==
    [title |-> "A",
     values |-> << <<hTiers, hInterestRate, hRepaymentTerm>>,
                   <<<<"1">>, <<"4">>, <<"3", "6", "M">>>> >>]
TabB == [title |-> "B", values |-> <<>>]

\* tab B with its header row filled in, and with a row that has no rate
TabHeaderOnly == [title |-> "B", values |-> << <<hTiers, hInterestRate, hRepaymentTerm>> >>]
TabAllSkipped ==
    [title |-> "B",
     values |-> << <<hTiers, hInterestRate, hRepaymentTerm>>,
                   <<<<"1">>, <<>>, <<"3", "6", "M">>>> >>]

Spreadsheets ==
    {<<>>, <<TabA>>, <<TabA, TabB>>, <<TabA, TabHeaderOnly>>, <<TabA, TabAllSkipped>>}

\* getSheetsClient: throws, or returns with sheetsAuth created
getSheetsClient(e, auth) ==
    IF ~e.sheetId THEN Thrown("RATE_SHEET_ID environment variable is not set.")
    ELSE IF auth THEN Returned(TRUE)
    ELSE IF e.account = "unset"
    THEN Thrown("GOOGLE_SERVICE_ACCOUNT environment variable is not set.")
    ELSE IF e.account = "malformed" THEN Thrown("Unexpected token in JSON")
    ELSE Returned(TRUE)

\* the title of the last tab of the metadata
latestTab(sheetsMeta) ==
    IF sheetsMeta = <<>> THEN Thrown("No sheets found in spreadsheet.")
    ELSE Returned(sheetsMeta[Len(sheetsMeta)].title)

\* spreadsheets.values.get for the tab of that title: rejected when the request
\* fails or the spreadsheet has no such tab (any more)
valuesGet(doc, title, ok) ==
    LET tab(i) ==
            IF ~ok THEN Thrown("request failed")
            ELSE IF i = 0 THEN Thrown("Unable to parse range")
            ELSE Returned(doc[i].values)
    IN  tab(MinOr({i \in 1..Len(doc) : doc[i].title = title}, 0))

\* cachedRatesHtml = html; lastRefresh = new Date()
refreshedUnstamped(rows, now) ==
    [cachedRatesHtml |-> generateRateSheetHtml(rows), lastRefresh |-> 0]

\* generateRateSheetHtml(rows) for the values a tab of the spreadsheet can hold,
\* worked out once for each of them
TabValues == UNION {{doc[i].values : i \in 1..Len(doc)} : doc \in Spreadsheets}

RateSheetHtml == [rows \in TabValues |-> generateRateSheetHtml(rows)]

refreshed(rows, now) ==
    [cachedRatesHtml |-> RateSheetHtml[rows], lastRefresh |-> now]

\* the cache after the values request returned: refreshRatesHtml from its last
\* await on
settledCleared(cache, got, now) ==
    IF got.threw THEN [cachedRatesHtml |-> <<>>, lastRefresh |-> 0]
    ELSE refreshed(got.value, now)

settled(cache, got, now) ==
    IF got.threw THEN cache ELSE refreshed(got.value, now)

\* if (!cachedRatesHtml)
alwaysRefresh(cached) == TRUE

needsRefresh(cached) == cached = <<>>

\* the responses of the two handlers
failedFor(route, message) ==
    IF route = "latest" THEN [status |-> 500, text |-> "Error loading rate sheet."]
    ELSE [status |-> 500, ok |-> FALSE, error |-> message]

answeredFor(route, cache) ==
    IF route = "latest" THEN [status |-> 200, html |-> cache.cachedRatesHtml]
    ELSE [status |-> 200, ok |-> TRUE, lastRefresh |-> cache.lastRefresh]

\* the cache of server.js when the process starts, nothing in progress
ColdCache ==
    /\ cachedRatesHtml = <<>>
    /\ lastRefresh = 0
    /\ sheetsAuth = FALSE
    /\ clock = 1
    /\ calls = [p \in Slots |-> NoCall]

Init ==
    /\ req = NoRequest
    /\ res = NoResponse
    /\ outputDoc = NoDoc
    /\ template = templateHtml
    /\ raw = <<>>
    /\ label = NoLabel
    /\ passes = 0
    /\ ColdCache
    /\ env = EnvSet
    /\ spreadsheet = <<>>

\* a request reaches one of the three services
Arrive ==
    /\ req = NoRequest
    /\ req' \in Requests
    /\ UNCHANGED <<res, outputDoc, template, raw, label, passes, cacheVars>>

\* server.js: app.post('/api/upload-csv')
PostApiUploadCsv ==
    /\ req.app = "server"
    /\ res = NoResponse
    /\ res' = apiUploadCsv(req.file)
    /\ UNCHANGED <<req, outputDoc, template, raw, label, passes, cacheVars>>

\* part_000: app.post("/upload")
PostUpload ==
    /\ req.app = "upload"
    /\ res = NoResponse
    /\ res' = upload(req.body)
    /\ UNCHANGED <<req, outputDoc, template, raw, label, passes, cacheVars>>

\* part_001: app.post("/upload-csv")
PostUploadCsv ==
    /\ req.app = "polaris"
    /\ res = NoResponse
    /\ res' = uploadCsv(req.file, template, outputDoc).res
    /\ outputDoc' = uploadCsv(req.file, template, outputDoc).doc
    /\ UNCHANGED <<req, template, raw, label, passes, cacheVars>>

Next == Arrive \/ PostApiUploadCsv \/ PostUpload \/ PostUploadCsv

Spec == Init /\ [][Next]_vars

----------------------------------------------------------------------------
(* Term normalisation on its own: a raw term, normalised once and once more *)

MaxLen == 3         \* atoms of a raw term

TermAtoms == {"3", "0", ".", " ", "-", "M", "Month"}

RawTerms == SeqsUpTo(TermAtoms, MaxLen)

InitNorm ==
    /\ req = NoRequest
    /\ res = NoResponse
    /\ outputDoc = NoDoc
    /\ template = templateHtml
    /\ raw \in RawTerms
    /\ label = NoLabel
    /\ passes = 0
    /\ ColdCache
    /\ env = EnvSet
    /\ spreadsheet = <<>>

\* what the next application is given: the raw term, then the label before
Operand == IF passes = 0 THEN raw ELSE label.out[passes]

\* server.js: formatTermLabel applied
FormatTermLabel ==
    /\ passes < 2
    /\ label.by \in {"none", "formatTermLabel"}
    /\ label' = [by |-> "formatTermLabel", out |-> Append(label.out, formatTermLabel(Operand))]
    /\ passes' = passes + 1
    /\ UNCHANGED <<req, res, outputDoc, template, raw, cacheVars>>

\* part_001: termLabelFrom applied
TermLabelFrom ==
    /\ passes < 2
    /\ label.by \in {"none", "termLabelFrom"}
    /\ label' = [by |-> "termLabelFrom", out |-> Append(label.out, termLabelFrom(Operand))]
    /\ passes' = passes + 1
    /\ UNCHANGED <<req, res, outputDoc, template, raw, cacheVars>>

NextNorm == FormatTermLabel \/ TermLabelFrom

SpecNorm == InitNorm /\ [][NextNorm]_vars

----------------------------------------------------------------------------
(* The cache under concurrent requests: each handler runs from one await to the
   next in one step *)

InitCache ==
    /\ req = NoRequest
    /\ res = NoResponse
    /\ outputDoc = NoDoc
    /\ template = templateHtml
    /\ raw = <<>>
    /\ label = NoLabel
    /\ passes = 0
    /\ ColdCache
    /\ env \in Envs
    /\ spreadsheet \in Spreadsheets

Free(p) == calls[p] = NoCall

Cache == [cachedRatesHtml |-> cachedRatesHtml, lastRefresh |-> lastRefresh]

Awaiting(route, pc, title) == [route |-> route, pc |-> pc, title |-> title]

\* the response as sent: by which handler and when
Sent(route, response) == [route |-> route, at |-> clock] @@ response

\* refreshRatesHtml to its await of spreadsheets.get, or to the throw of
\* getSheetsClient and the catch of the handler
StartRefresh(p, route) ==
    LET started(client) ==
            IF client.threw
            THEN /\ res' = Sent(route, failedFor(route, client.message))
                 /\ UNCHANGED <<calls, sheetsAuth>>
            ELSE /\ calls' = [calls EXCEPT ![p] = Awaiting(route, "meta", "")]
                 /\ sheetsAuth' = TRUE
                 /\ UNCHANGED res
    IN  /\ started(getSheetsClient(env, sheetsAuth))
        /\ UNCHANGED <<cachedRatesHtml, lastRefresh>>

\* app.get('/rates/latest'): answered from the cache, or a refresh started
GetRatesLatest ==
    \E p \in Slots :
        /\ Free(p)
        /\ IF needsRefresh(cachedRatesHtml)
           THEN StartRefresh(p, "latest")
           ELSE /\ res' = Sent("latest", answeredFor("latest", Cache))
                /\ UNCHANGED <<cachedRatesHtml, lastRefresh, sheetsAuth, calls>>
        /\ UNCHANGED <<req, outputDoc, template, normVars, env, spreadsheet, clock>>

\* app.post('/admin/refresh-rates')
PostAdminRefreshRates ==
    \E p \in Slots :
        /\ Free(p)
        /\ StartRefresh(p, "refresh")
        /\ UNCHANGED <<req, outputDoc, template, normVars, env, spreadsheet, clock>>

\* spreadsheets.get returns or is rejected: refreshRatesHtml from there to its
\* await of spreadsheets.values.get
SpreadsheetsGet ==
    \E p \in Slots, ok \in BOOLEAN :
        LET continued(meta) ==
                IF meta.threw
                THEN /\ res' = Sent(calls[p].route, failedFor(calls[p].route, meta.message))
                     /\ calls' = [calls EXCEPT ![p] = NoCall]
                ELSE /\ calls' = [calls EXCEPT ![p] = Awaiting(calls[p].route, "values", meta.value)]
                     /\ UNCHANGED res
        IN  /\ calls[p].pc = "meta"
            /\ continued(IF ok THEN latestTab(spreadsheet) ELSE Thrown("request failed"))
            /\ UNCHANGED <<req, outputDoc, template, normVars, cachedRatesHtml, lastRefresh, sheetsAuth,
                           env, spreadsheet, clock>>

\* spreadsheets.values.get returns or is rejected: refreshRatesHtml to its end,
\* and the handler to its response
SpreadsheetsValuesGet ==
    \E p \in Slots, ok \in BOOLEAN :
        LET wrote(got, cache) ==
                /\ cachedRatesHtml' = cache.cachedRatesHtml
                /\ lastRefresh' = cache.lastRefresh
                /\ res' = Sent(calls[p].route,
                               IF got.threw THEN failedFor(calls[p].route, got.message)
                               ELSE answeredFor(calls[p].route, cache))
                /\ calls' = [calls EXCEPT ![p] = NoCall]
            returned(got) == wrote(got, settled(Cache, got, clock))
        IN  /\ calls[p].pc = "values"
            /\ returned(valuesGet(spreadsheet, calls[p].title, ok))
            /\ UNCHANGED <<req, outputDoc, template, normVars, sheetsAuth, env, spreadsheet, clock>>

\* time passes
Tick ==
    /\ clock < MaxClock
    /\ clock' = clock + 1
    /\ UNCHANGED <<uploadVars, normVars, cachedRatesHtml, lastRefresh, sheetsAuth, env,
                   spreadsheet, calls>>

\* the spreadsheet is edited at Google
EditSpreadsheet ==
    /\ spreadsheet' \in Spreadsheets \ {spreadsheet}
    /\ UNCHANGED <<uploadVars, normVars, cachedRatesHtml, lastRefresh, sheetsAuth, env,
                   clock, calls>>

NextCache ==
    \/ GetRatesLatest
    \/ PostAdminRefreshRates
    \/ SpreadsheetsGet
    \/ SpreadsheetsValuesGet
    \/ Tick
    \/ EditSpreadsheet

SpecCache == InitCache /\ [][NextCache]_vars

----------------------------------------------------------------------------
(* The splice of part_001: uploads one after the other, template.html edited
   between them *)

InitSplice ==
    /\ req = NoRequest
    /\ res = NoResponse
    /\ outputDoc = NoDoc
    /\ template \in Templates
    /\ raw = <<>>
    /\ label = NoLabel
    /\ passes = 0
    /\ ColdCache
    /\ env = EnvSet
    /\ spreadsheet = <<>>

\* the next upload reaches /upload-csv
ArriveUploadCsv ==
    /\ req = NoRequest \/ res # NoResponse
    /\ req' \in {[app |-> "polaris", file |-> f] : f \in SpliceUploads}
    /\ res' = NoResponse
    /\ UNCHANGED <<outputDoc, template, normVars, cacheVars>>

\* template.html is replaced before the handler reads it
EditTemplate ==
    /\ res = NoResponse
    /\ template' \in Templates \ {template}
    /\ UNCHANGED <<req, res, outputDoc, normVars, cacheVars>>

NextSplice == ArriveUploadCsv \/ PostUploadCsv \/ EditTemplate

SpecSplice == InitSplice /\ [][NextSplice]_vars

----------------------------------------------------------------------------
(* What a request leaves behind, and what it was given *)

\* the fragment the request produced: the html of its response, or the tables it
\* wrote into the output document
Rendered ==
    IF "html" \in DOMAIN res THEN res.html
    ELSE IF outputDoc.written THEN tablesIn(outputDoc)
    ELSE <<>>

RowTexts(rows) == UNION {Range(rows[i]) : i \in 1..Len(rows)}

\* the texts of an element that come from the sheet; the rest is fixed markup
DataTexts(el) ==
    CASE el.kind = "p" -> {}
      [] el.kind = "table" -> Range(el.head) \cup RowTexts(el.body)
      [] el.kind = "promo" ->
            Range(el.terms) \cup Range(el.elig)
                \cup UNION {{el.rows[i].tier} \cup Range(el.rows[i].rates) \cup Range(el.rows[i].meta) :
                               i \in 1..Len(el.rows)}
      [] el.kind = "polaris" -> Range(el.head) \cup RowTexts(el.rows) \cup Range(el.elig)
      [] el.kind = "promo-sheet" ->
            UNION {{el.groups[i].title, el.groups[i].productLine}
                       \cup Range(el.groups[i].head) \cup RowTexts(el.groups[i].body) :
                   i \in 1..Len(el.groups)}
      [] el.kind = "standard-sheet" ->
            UNION {Range(el.tables[i].head) \cup RowTexts(el.tables[i].body) :
                   i \in 1..Len(el.tables)}

Entities == {AMP, LT, GT, QUOT, APOS}

EntityAt(t, i) ==
    \E e \in Entities : i + Len(e) - 1 <= Len(t) /\ SubSeq(t, i, i + Len(e) - 1) = e

\* no <, > or " in the text, and every & opens an entity
Escaped(t) ==
    \A i \in 1..Len(t) : t[i] \notin {"<", ">", "\""} /\ (t[i] = "&" => EntityAt(t, i))

\* the records of a parsed CSV upload of the request (server.js and part_001)
Records == IF req.app \in {"server", "polaris"} /\ req.file.kind = "csv" THEN req.file.records ELSE <<>>

Answered == res # NoResponse

\* server.js: the sheet is pivoted (tier, rate and term column located)
Pivoted(ix) == ix.tierIdx # -1 /\ ix.rateIdx # -1 /\ ix.termIdx # -1

\* server.js: the row has a tier, a rate and a term
Complete(row, ix) ==
    Cell(row, ix.tierIdx) # <<>> /\ Cell(row, ix.rateIdx) # <<>> /\ Cell(row, ix.termIdx) # <<>>

\* server.js: the block has `rate` in the row of `tier` and the column of `term`
CellHolds(el, tier, term, rate) ==
    \E i \in 1..Len(el.rows), j \in 1..Len(el.terms) :
        /\ el.rows[i].tier = escapeHtml(tier)
        /\ el.terms[j] = escapeHtml(term)
        /\ el.rows[i].rates[j] = escapeHtml(rate)

\* server.js: rows m and n are complete and have the same normalized tier and term
SameTierAndTerm(rows, m, n, ix) ==
    /\ Complete(rows[m], ix) /\ Complete(rows[n], ix)
    /\ formatTierLabel(Cell(rows[m], ix.tierIdx)) = formatTierLabel(Cell(rows[n], ix.tierIdx))
    /\ formatTermLabel(Cell(rows[m], ix.termIdx)) = formatTermLabel(Cell(rows[n], ix.termIdx))

\* the block rendered for the group `key` shows the rate of row n at its tier and term
ShowsRateOf(row, key, ix) ==
    \E k \in 1..Len(Rendered) :
        /\ Rendered[k].kind = "promo"
        /\ Rendered[k].group = key
        /\ CellHolds(Rendered[k], formatTierLabel(Cell(row, ix.tierIdx)),
                     formatTermLabel(Cell(row, ix.termIdx)), Trim(Cell(row, ix.rateIdx)))

----------------------------------------------------------------------------
(* C1 *)

\* C1: whatever the renderer, no cell value, header label, group name or
\* eligibility string reaches the output with a raw <, >, " or & in it.
EveryRendererEscapes ==
    \A k \in 1..Len(Rendered) : \A t \in DataTexts(Rendered[k]) : Escaped(t)

----------------------------------------------------------------------------
(* C2 *)

\* C2: in the renderers that escape their texts (server.js and buildTableBlock of
\* part_001), the escaping covers the apostrophe like the other four characters:
\* no rendered cell, header or eligibility text holds a raw apostrophe.
EveryEscapeCoversApostrophe ==
    \A k \in 1..Len(Rendered) :
        Rendered[k].kind \in {"table", "promo", "polaris"}
            => \A t \in DataTexts(Rendered[k]) : "'" \notin Range(t)

----------------------------------------------------------------------------
(* C3 *)

CompleteIn(rows, ix, nameIdx, stubIdx) ==
    \A n \in 2..Len(rows) :
        (/\ groupKey(rows[n], stubIdx, nameIdx) # <<>>
         /\ Complete(rows[n], ix)
         /\ ~\E p \in (n + 1)..Len(rows) :
                /\ groupKey(rows[p], stubIdx, nameIdx) = groupKey(rows[n], stubIdx, nameIdx)
                /\ SameTierAndTerm(rows, n, p, ix))
            => ShowsRateOf(rows[n], groupKey(rows[n], stubIdx, nameIdx), ix)

\* C3: in generateRateSheetHtml, with the tier, rate, term and a program column
\* located, every data row that has a grouping key, a tier, a rate and a term, and
\* that no later row of its group repeats at the same normalized tier and term, has
\* its (trimmed, escaped) rate in the block of its key, in the row of its normalized
\* tier and the column of its normalized term.
GroupCompleteness ==
    (req.app = "server" /\ Answered /\ Records # <<>>)
        => LET located(ix, nameIdx, stubIdx) ==
                   (Pivoted(ix) /\ (nameIdx # -1 \/ stubIdx # -1))
                       => CompleteIn(Records, ix, nameIdx, stubIdx)
           IN  located(locateColumns(Records[1]), programNameIdxOf(Records[1]),
                       programStubIdxOf(Records[1]))

\* C3 happens: two programs, and the rate " <5" of program B in its block at
\* the row Tier 2 and the column 60M
GroupCompletenessSeen ==
    /\ req.app = "server"
    /\ Len(Records) = 3
    /\ Len(Rendered) = 2
    /\ Rendered[2].kind = "promo"
    /\ Rendered[2].group = <<"B">>
    /\ Cell(Records[3], 2) = <<" ", "<", "5">>
    /\ CellHolds(Rendered[2], <<"Tier", " ", "2">>, <<"6", "0", "M">>, <<"<", "5">>)

----------------------------------------------------------------------------
(* C4, C5: rows that must leave no trace *)

\* every cell of the row is empty or white space
BlankRow(row) == \A i \in 1..Len(row) : Trim(row[i]) = <<>>

\* the sheet without the data rows that Drop picks
WithoutRows(rows, Drop(_)) == <<rows[1]>> \o SelectSeq(Tail(rows), LAMBDA r : ~Drop(r))

\* the tables of a fragment: what is left without the placeholder paragraphs
Blocks(html) == SelectSeq(html, LAMBDA el : el.kind # "p")

\* part_001: the columns of the sheet
PolarisIdx == polarisColumns([i \in 1..Len(Records[1]) |-> Trim(Records[1][i])])

\* part_001: the rate of the row for the t-th tier ('' without the column)
PolarisRate(row, idx, t) ==
    IF idx.idxRate[t] = -1 THEN <<>> ELSE Trim(Cell(row, idx.idxRate[t]))

\* part_001: the row has no term, or no rate for any tier
PolarisIncomplete(row, idx) ==
    \/ Trim(Cell(row, idx.idxTerm)) = <<>>
    \/ \A t \in 1..Len(tierOrder) : PolarisRate(row, idx, t) = <<>>

ServerPivots == req.app = "server" /\ Answered /\ Records # <<>> /\ Pivoted(locateColumns(Records[1]))

PolarisAccepts == req.app = "polaris" /\ Answered /\ Records # <<>> /\ res.status = 200

\* C4: a data row whose cells are all empty or white space adds nothing to any
\* tier map of either pivot builder: the tables rendered are those of the sheet
\* without its blank rows.
BlankRowsAddNothing ==
    /\ ServerPivots
           => Blocks(Rendered) = Blocks(generateRateSheetHtml(WithoutRows(Records, BlankRow)))
    /\ PolarisAccepts
           => Blocks(Rendered) = Blocks(buildTablesHtmlFromCsv(WithoutRows(Records, BlankRow)).value)

\* C5: a data row without a tier, a rate or a term is skipped without error and
\* nothing of it is rendered (no tier row, term column, rate cell or eligibility
\* item), the other rows being rendered as without it: the tables are those of
\* the sheet without such rows.
SkippedRowsLeaveNothing ==
    /\ ServerPivots
           => /\ res.status = 200
              /\ LET without(ix) ==
                         generateRateSheetHtml(WithoutRows(Records, LAMBDA r : ~Complete(r, ix)))
                 IN  Blocks(Rendered) = Blocks(without(locateColumns(Records[1])))
    /\ PolarisAccepts
           => LET without(idx) ==
                      buildTablesHtmlFromCsv(
                          WithoutRows(Records, LAMBDA r : PolarisIncomplete(r, idx))).value
              IN  Blocks(Rendered) = Blocks(without(PolarisIdx))

----------------------------------------------------------------------------
(* C6 *)

\* server.js: the key of the block that renders the row
BlockKey(row, nameIdx, stubIdx) ==
    IF nameIdx = -1 /\ stubIdx = -1 THEN <<>> ELSE groupKey(row, stubIdx, nameIdx)

\* server.js: the row is in a group that is rendered (rows without a key are
\* rendered only when no row has one)
Grouped(rows, n, nameIdx, stubIdx) ==
    \/ nameIdx = -1 /\ stubIdx = -1
    \/ groupKey(rows[n], stubIdx, nameIdx) # <<>>
    \/ \A p \in 2..Len(rows) : groupKey(rows[p], stubIdx, nameIdx) = <<>>

SameServerCell(rows, m, n, ix, nameIdx, stubIdx) ==
    /\ BlockKey(rows[m], nameIdx, stubIdx) = BlockKey(rows[n], nameIdx, stubIdx)
    /\ SameTierAndTerm(rows, m, n, ix)

LastWriteWinsServer(rows, ix, nameIdx, stubIdx) ==
    \A m \in 2..Len(rows), n \in 2..Len(rows) :
        (/\ m < n
         /\ Grouped(rows, n, nameIdx, stubIdx)
         /\ SameServerCell(rows, m, n, ix, nameIdx, stubIdx)
         /\ Trim(Cell(rows[m], ix.rateIdx)) # Trim(Cell(rows[n], ix.rateIdx))
         /\ ~\E p \in (n + 1)..Len(rows) : SameServerCell(rows, n, p, ix, nameIdx, stubIdx))
            => ShowsRateOf(rows[n], BlockKey(rows[n], nameIdx, stubIdx), ix)

\* part_001: rows m and n are of one group and one term and both have a rate for tier t
SamePolarisCell(rows, m, n, idx, t) ==
    /\ ~isEmptyRow(rows[m], idx) /\ ~isEmptyRow(rows[n], idx)
    /\ rowKey(rows[m], idx) = rowKey(rows[n], idx)
    /\ termLabelFrom(Cell(rows[m], idx.idxTerm)) = termLabelFrom(Cell(rows[n], idx.idxTerm))
    /\ PolarisRate(rows[m], idx, t) # <<>>
    /\ PolarisRate(rows[n], idx, t) # <<>>

\* part_001: the block of the row's group shows its rate for tier t at its term
PolarisShows(row, idx, t) ==
    \E k \in 1..Len(Rendered) :
        /\ Rendered[k].kind = "polaris"
        /\ Rendered[k].group = rowKey(row, idx)
        /\ \E i \in 1..Len(Rendered[k].rows), j \in 2..(Len(Rendered[k].head) - 3) :
               /\ Rendered[k].rows[i][1] = escapeHtmlPolaris(tierNameOf(tierOrder[t]))
               /\ Rendered[k].head[j] = escapeHtmlPolaris(termLabelFrom(Cell(row, idx.idxTerm)))
               /\ Rendered[k].rows[i][j] = escapeHtmlPolaris(PolarisRate(row, idx, t))

LastWriteWinsPolaris(rows, idx) ==
    \A t \in 1..Len(tierOrder), m \in 2..Len(rows), n \in 2..Len(rows) :
        (/\ m < n
         /\ SamePolarisCell(rows, m, n, idx, t)
         /\ PolarisRate(rows[m], idx, t) # PolarisRate(rows[n], idx, t)
         /\ ~\E p \in (n + 1)..Len(rows) : SamePolarisCell(rows, n, p, idx, t))
            => PolarisShows(rows[n], idx, t)

\* C6: when rows of one group have the same normalized tier and term and
\* different rates, the request succeeds and the cell at that tier and term holds
\* the rate of the last of them (server.js; in part_001, the last of them that has
\* a rate for the tier).
LastWriteWins ==
    /\ ServerPivots
           => /\ res.status = 200
              /\ LastWriteWinsServer(Records, locateColumns(Records[1]),
                                     programNameIdxOf(Records[1]), programStubIdxOf(Records[1]))
    /\ PolarisAccepts => LastWriteWinsPolaris(Records, PolarisIdx)

\* C6 happens: tier 1 at 36 months twice, first at 4 then at " <5": the cell
\* shows <5
LastWriteWinsSeen ==
    /\ req.app = "server"
    /\ Records = << <<hTiers, hInterestRate, hRepaymentTerm>>,
                    << <<"1">>, <<"4">>, <<"3", "6", " ", "Month", "s">> >>,
                    << <<"1">>, <<" ", "<", "5">>, <<"3", "6", "M">> >> >>
    /\ Len(Rendered) = 1
    /\ Rendered[1].kind = "promo"
    /\ Rendered[1].terms = << <<"3", "6", "M">> >>
    /\ Rendered[1].rows[1].rates = << <<"&", "l", "t", ";", "5">> >>

----------------------------------------------------------------------------
(* C7 *)

\* the term columns of a table
TermsOf(el) ==
    CASE el.kind = "promo" -> el.terms
      [] el.kind = "polaris" -> SubSeq(el.head, 2, Len(el.head) - 3)
      [] OTHER -> <<>>

LeadingInt(t) == parseInt(LeadingDigits(t))

Ascending(ts) ==
    (\A j \in 1..Len(ts) : LeadingDigits(ts[j]) # <<>>)
        => \A j \in 1..(Len(ts) - 1) : LeadingInt(ts[j]) <= LeadingInt(ts[j + 1])

\* C7: in every rendered table whose term labels all start with digits, the term
\* columns are in ascending order of their leading integer, whatever the order of
\* the rows.
TermColumnsAscending == \A k \in 1..Len(Rendered) : Ascending(TermsOf(Rendered[k]))

\* C7 happens: the rows give 60M, 36M, 84M and the columns are 36M, 60M, 84M
TermColumnsAscendingSeen ==
    /\ req.app = "server"
    /\ Len(Records) = 4
    /\ [n \in 1..3 |-> Cell(Records[n + 1], 2)]
           = << <<"6", "0", "M">>, <<"3", "6", "M">>, <<"8", "4", "M">> >>
    /\ Len(Rendered) = 1
    /\ Rendered[1].kind = "promo"
    /\ Rendered[1].terms = << <<"3", "6", "M">>, <<"6", "0", "M">>, <<"8", "4", "M">> >>

----------------------------------------------------------------------------
(* C8 *)

\* the rows the handler of the request works on
SheetRows ==
    IF req.app = "upload" THEN splitRows(req.body.lines) ELSE Records

\* a sheet was uploaded (a parsed CSV; for part_000 a form with oem and file)
SheetUploaded ==
    \/ req.app \in {"server", "polaris"} /\ req.file.kind = "csv"
    \/ req.app = "upload" /\ req.body.hasOem /\ req.body.hasFile

\* no rows at all, only a header row, or only blank data rows
ZeroDataRows == \A n \in 2..Len(SheetRows) : BlankRow(SheetRows[n])

Succeeded == res.status = 200 /\ ("success" \in DOMAIN res => res.success)

\* C8: an upload with zero data rows is answered successfully, with the "no data
\* found" placeholder and nothing else as its output.
EmptyInputGivesPlaceholder ==
    (Answered /\ SheetUploaded /\ ZeroDataRows)
        => /\ Succeeded
           /\ Len(Rendered) = 1
           /\ Rendered[1].kind = "p"

----------------------------------------------------------------------------
(* C9 *)

PolarisRequired == {colProduct, colYears, colTerm, colRate(<<"1">>), colRate(<<"2">>)}

\* part_001: a required column is not in the (trimmed) header
LacksPolarisColumn(headerRow) ==
    \E name \in PolarisRequired : \A i \in 1..Len(headerRow) : Trim(headerRow[i]) # name

\* part_000: the sheet is taken as promotional and a required column is not in
\* its (cleaned) header, or it is taken as neither promotional nor standard
UploadMisshaped(rows) ==
    \/ /\ detectCsvType(rows) = "promo"
       /\ \E name \in {TableGroup, EligibleProductsModels, hTiers} :
              \A i \in 1..Len(rows[1]) : clean(rows[1][i]) # name
    \/ detectCsvType(rows) = "unknown"

PolarisFails == res.status = 500 /\ "error" \in DOMAIN res /\ outputDoc = NoDoc

UploadFails == ~Succeeded /\ "error" \in DOMAIN res /\ "html" \notin DOMAIN res

----------------------------------------------------------------------------
(* C10 *)

\* a label normalized again is the same label
Idempotent == passes = 2 => label.out[2] = label.out[1]

\* "3.0" is normalized to 3M (the spec's "36.0" becomes "36M")
DecimalCanonical == (passes >= 1 /\ raw = <<"3", ".", "0">>) => label.out[1] = <<"3", "M">>

\* C10: for formatTermLabel and for termLabelFrom, a label normalized again is
\* the same label, a term such as "36.0" becoming "36M" and staying "36M".
NormalizationIdempotent == Idempotent /\ DecimalCanonical

----------------------------------------------------------------------------
(* C11 *)

\* Table Group, Eligible Products/Models, Tiers, then the term columns
PromoLayout(header) ==
    /\ Len(header) >= 4
    /\ clean(header[1]) = TableGroup
    /\ clean(header[2]) = EligibleProductsModels
    /\ clean(header[3]) = hTiers

\* the tables of the fragment, each with its title, header cells, body rows and
\* eligibility text
TablesShown ==
    IF Rendered = <<>> THEN <<>>
    ELSE IF Rendered[1].kind = "promo-sheet"
    THEN [i \in 1..Len(Rendered[1].groups) |->
             [title |-> Rendered[1].groups[i].title,
              head  |-> Rendered[1].groups[i].head,
              body  |-> Rendered[1].groups[i].body,
              elig  |-> Rendered[1].groups[i].productLine]]
    ELSE IF Rendered[1].kind = "table"
    THEN << [title |-> <<>>, head |-> Rendered[1].head, body |-> Rendered[1].body,
             elig |-> <<>>] >>
    ELSE <<>>

\* from the tiers column on
FromTiers(row) == SubSeq(cleanRow(row), 3, Len(row))

\* the data rows of the Table Group g
RowsOfGroup(rows, g) == SelectSeq(Tail(rows), LAMBDA r : clean(r[1]) = g)

TableGroups(rows) == {clean(rows[n][1]) : n \in 2..Len(rows)} \ {<<>>}

\* table t is the table of group g: Tiers and the terms, a row per data row
\* with the tier and its rates, and the group's eligible products
IsTableOf(t, rows, g) ==
    /\ t.title = g
    /\ t.head = FromTiers(rows[1])
    /\ t.body = [j \in 1..Len(RowsOfGroup(rows, g)) |-> FromTiers(RowsOfGroup(rows, g)[j])]
    /\ \E j \in 1..Len(RowsOfGroup(rows, g)) : t.elig = clean(RowsOfGroup(rows, g)[j][2])

\* C11: for a sheet with the header Table Group, Eligible Products/Models, Tiers
\* and term columns, every distinct non-empty Table Group has exactly one table:
\* its header is Tiers and the term columns, its body one row per data row of the
\* group with the tier and its rates, its eligibility text the group's Eligible
\* Products/Models value; and there is no other table.
PromoHappyPath ==
    (/\ Answered /\ SheetUploaded /\ req.app \in {"upload", "server"}
     /\ SheetRows # <<>> /\ PromoLayout(SheetRows[1])
     /\ \A n \in 2..Len(SheetRows) : Len(SheetRows[n]) = Len(SheetRows[1]))
        => /\ Succeeded
           /\ Cardinality({i \in 1..Len(TablesShown) : TablesShown[i].title # <<>>})
                  = Cardinality(TableGroups(SheetRows))
           /\ \A g \in TableGroups(SheetRows) :
                  \E i \in 1..Len(TablesShown) : IsTableOf(TablesShown[i], SheetRows, g)

----------------------------------------------------------------------------
(* C12 *)

\* in this step a handler answers 500: at once, or a request in progress ends
RefreshFails ==
    /\ res'.status = 500
    /\ \/ res' # res
       \/ \E p \in Slots : calls[p] # NoCall /\ calls'[p] = NoCall

\* in this step GET /rates/latest arrives and finds a fragment in the cache
ReadsFilledCache ==
    /\ cachedRatesHtml # <<>>
    /\ calls' = calls
    /\ res' # res
    /\ res'.route = "latest"

\* C12: a step in which a refresh fails (no configuration, the metadata or the
\* values request rejected, no tab) leaves cachedRatesHtml and lastRefresh as
\* they were, and a GET /rates/latest that finds a cached fragment is answered
\* 200 with that fragment.
FailedRefreshKeepsCache ==
    [][/\ RefreshFails => UNCHANGED <<cachedRatesHtml, lastRefresh>>
       /\ ReadsFilledCache
              => /\ res'.status = 200
                 /\ res'.html = cachedRatesHtml
                 /\ UNCHANGED <<cachedRatesHtml, lastRefresh>>]_vars

\* C12 happens: the cache was filled from tab A at lastRefresh; later the
\* spreadsheet lost its tabs and POST /admin/refresh-rates failed: the cache
\* still holds the fragment and its time
FailedRefreshKeepsCacheSeen ==
    /\ res.status = 500
    /\ res.route = "refresh"
    /\ res.error = "No sheets found in spreadsheet."
    /\ lastRefresh >= 1
    /\ res.at > lastRefresh
    /\ cachedRatesHtml = generateRateSheetHtml(TabA.values)

----------------------------------------------------------------------------
(* C13 *)

\* in this step GET /rates/latest calls refreshRatesHtml
LatestStartsRefresh ==
    \E p \in Slots : calls[p] = NoCall /\ calls'[p] # NoCall /\ calls'[p].route = "latest"

\* in this step a refresh gets its values and ends with a 200 answer
RefreshSucceeds ==
    /\ res'.status = 200
    /\ \E p \in Slots : calls[p] # NoCall /\ calls[p].pc = "values" /\ calls'[p] = NoCall

\* C13: GET /rates/latest calls refreshRatesHtml only on an empty cache; on a
\* filled cache it answers with the cached fragment, starts no request to the
\* spreadsheet and leaves cachedRatesHtml and lastRefresh alone, read after
\* read; the cache changes in no step other than a refresh that succeeds.
CacheReadOnlyOnHit ==
    [][/\ LatestStartsRefresh => cachedRatesHtml = <<>>
       /\ (cachedRatesHtml # <<>> /\ res' # res /\ res'.route = "latest" /\ res'.at = clock
              /\ \A p \in Slots : calls[p].route = "latest" => calls'[p] = calls[p])
              => /\ res'.html = cachedRatesHtml
                 /\ calls' = calls
                 /\ UNCHANGED <<cachedRatesHtml, lastRefresh>>
       /\ <<cachedRatesHtml, lastRefresh>>' # <<cachedRatesHtml, lastRefresh>>
              => RefreshSucceeds]_vars

\* C13 happens: a read answered from the cache later than the cache was
\* written, with no request to the spreadsheet in progress
CacheReadOnlyOnHitSeen ==
    /\ res.status = 200
    /\ res.route = "latest"
    /\ cachedRatesHtml # <<>>
    /\ res.html = cachedRatesHtml
    /\ res.at > lastRefresh
    /\ \A p \in Slots : calls[p] = NoCall

----------------------------------------------------------------------------
(* C20 *)

\* in this step the one run p ends and the cache holds what p produced: the
\* fragment of the tab p asked for, and the time p wrote at
WrittenByRun(p) ==
    /\ calls[p] # NoCall
    /\ calls[p].pc = "values"
    /\ calls'[p] = NoCall
    /\ \A q \in Slots \ {p} : calls'[q] = calls[q]
    /\ lastRefresh' = clock
    /\ \E i \in 1..Len(spreadsheet) :
           /\ spreadsheet[i].title = calls[p].title
           /\ cachedRatesHtml' = RateSheetHtml[spreadsheet[i].values]

\* C20: whatever the interleaving of the requests, lastRefresh is null exactly
\* when cachedRatesHtml is empty, a step that changes either of them writes
\* both from one run of refreshRatesHtml, and lastRefresh never moves back.
CachePairConsistent ==
    /\ [](lastRefresh = 0 <=> cachedRatesHtml = <<>>)
    /\ [][/\ <<cachedRatesHtml, lastRefresh>>' # <<cachedRatesHtml, lastRefresh>>
                 => \E p \in Slots : WrittenByRun(p)
          /\ lastRefresh' >= lastRefresh]_vars

\* C20 happens: two runs overlap; one has written the cache after the clock
\* moved and answered with its time, the other still waits for its values
CachePairConsistentSeen ==
    /\ lastRefresh >= 2
    /\ cachedRatesHtml # <<>>
    /\ res.status = 200
    /\ res.route = "refresh"
    /\ res.lastRefresh = lastRefresh
    /\ \E p \in Slots : calls[p] # NoCall /\ calls[p].pc = "values"

----------------------------------------------------------------------------
(* C14 *)

\* where a marker first stands in a template, 0 if nowhere
MarkerAt(t, marker) == MinOr({i \in 1..Len(t) : t[i] = marker}, 0)

\* the start marker is absent, the end marker is absent, or the end marker
\* comes before the start marker
Malformed(t) ==
    \/ MarkerAt(t, startMarker) = 0
    \/ MarkerAt(t, endMarker) = 0
    \/ MarkerAt(t, endMarker) < MarkerAt(t, startMarker)

\* the upload being handled is a sheet that buildTablesHtmlFromCsv accepts, so
\* that the handler goes on to applyTablesToTemplate
ReachesSplice ==
    /\ req.app = "polaris"
    /\ req.file.kind = "csv"
    /\ ~buildTablesHtmlFromCsv(req.file.records).threw

\* C14: whenever the handler comes to applyTablesToTemplate with a template
\* that is malformed, the request fails with the markers error and the output
\* document is what it was before: not created, and not changed if an earlier
\* upload wrote it.
MalformedTemplateFails ==
    [][(ReachesSplice /\ res = NoResponse /\ res' # NoResponse /\ Malformed(template))
          => /\ res'.status = 500
             /\ res'.error = "Could not find TABLES_START / TABLES_END markers in template.html"
             /\ outputDoc' = outputDoc]_vars

\* C14 happens: an upload was spliced and written; template.html then lost
\* its markers' order and the next upload failed: the document is still there
MalformedTemplateFailsSeen ==
    /\ ReachesSplice
    /\ Malformed(template)
    /\ MarkerAt(template, startMarker) > 0
    /\ MarkerAt(template, endMarker) > 0
    /\ res.status = 500
    /\ outputDoc.written

----------------------------------------------------------------------------
(* C15 *)

\* the upload was answered 200 from a template with the start marker before
\* the end marker: the document holds the splice of this request
Spliced ==
    /\ ReachesSplice
    /\ res.status = 200
    /\ ~Malformed(template)

UpToStart(t) == SubSeq(t, 1, MarkerAt(t, startMarker))
FromEnd(t) == SubSeq(t, MarkerAt(t, endMarker), Len(t))

\* C15 as the claim states it: the document is the template up to and including
\* the start marker, then the fragment, then the template from the end marker on
SpliceIsBeforeFragmentAfter ==
    Spliced => outputDoc.text = Texts(UpToStart(template))
                                  \o <<Html(buildTablesHtmlFromCsv(req.file.records).value)>>
                                  \o Texts(FromEnd(template))

\* C15, amended: the document is the template up to and including the start
\* marker, a line break, the fragment, a line break, and the template from the
\* end marker on; what stood between the markers is gone, and the text
\* outside them is unchanged and in order.
SplicePreservesRest ==
    Spliced => outputDoc.text = Texts(UpToStart(template))
                                  \o <<Text("\n"),
                                       Html(buildTablesHtmlFromCsv(req.file.records).value),
                                       Text("\n")>>
                                  \o Texts(FromEnd(template))

\* C15 happens: a sheet of one row spliced into the template that has text
\* before, between and after its markers
SplicePreservesRestSeen ==
    /\ Spliced
    /\ template = templateHtml
    /\ Len(req.file.records) = 2
    /\ Len(outputDoc.text) = 7
    /\ outputDoc.text[1] = Text("<body>")
    /\ outputDoc.text[7] = Text("</body>")

----------------------------------------------------------------------------
(* C16 *)

\* server.js: the down payment, front-end cap and dealer fee columns
MetaIdx(ix) == <<ix.dpIdx, ix.capIdx, ix.feeIdx>>

\* server.js: the place of the f-th metadata cell in a tier row
MetaPos(ix, f) == Cardinality({g \in 1..f : MetaIdx(ix)[g] # -1})

\* server.js: row n brings a value for the f-th metadata of its tier
ServerBrings(rows, n, ix, f) ==
    /\ MetaIdx(ix)[f] # -1
    /\ Complete(rows[n], ix)
    /\ Trim(Cell(rows[n], MetaIdx(ix)[f])) # <<>>

FirstMetaWinsServer(rows, ix, nameIdx, stubIdx) ==
    \A f \in 1..3, n \in 2..Len(rows) :
        (/\ ServerBrings(rows, n, ix, f)
         /\ Grouped(rows, n, nameIdx, stubIdx)
         /\ ~\E m \in 2..(n - 1) :
                /\ ServerBrings(rows, m, ix, f)
                /\ BlockKey(rows[m], nameIdx, stubIdx) = BlockKey(rows[n], nameIdx, stubIdx)
                /\ formatTierLabel(Cell(rows[m], ix.tierIdx))
                       = formatTierLabel(Cell(rows[n], ix.tierIdx)))
            => \E k \in 1..Len(Rendered) :
                   /\ Rendered[k].kind = "promo"
                   /\ Rendered[k].group = BlockKey(rows[n], nameIdx, stubIdx)
                   /\ \E i \in 1..Len(Rendered[k].rows) :
                          /\ Rendered[k].rows[i].tier
                                 = escapeHtml(formatTierLabel(Cell(rows[n], ix.tierIdx)))
                          /\ Rendered[k].rows[i].meta[MetaPos(ix, f)]
                                 = escapeHtml(Trim(Cell(rows[n], MetaIdx(ix)[f])))

\* part_001: row n brings a dealer fee for the t-th tier
PolarisBrings(rows, n, idx, t) ==
    /\ idx.idxFee[t] # -1
    /\ ~isEmptyRow(rows[n], idx)
    /\ PolarisRate(rows[n], idx, t) # <<>>
    /\ Trim(Cell(rows[n], idx.idxFee[t])) # <<>>

FirstMetaWinsPolaris(rows, idx) ==
    \A t \in 1..Len(tierOrder), n \in 2..Len(rows) :
        (/\ PolarisBrings(rows, n, idx, t)
         /\ ~\E m \in 2..(n - 1) :
                PolarisBrings(rows, m, idx, t) /\ rowKey(rows[m], idx) = rowKey(rows[n], idx))
            => \E k \in 1..Len(Rendered) :
                   /\ Rendered[k].kind = "polaris"
                   /\ Rendered[k].group = rowKey(rows[n], idx)
                   /\ \E i \in 1..Len(Rendered[k].rows) :
                          /\ Rendered[k].rows[i][1] = escapeHtmlPolaris(tierNameOf(tierOrder[t]))
                          /\ Rendered[k].rows[i][Len(Rendered[k].rows[i])]
                                 = escapeHtmlPolaris(Trim(Cell(rows[n], idx.idxFee[t])))

\* server.js alone: the first value of a tier is the one shown
FirstMetaWinsInServer ==
    ServerPivots
        => FirstMetaWinsServer(Records, locateColumns(Records[1]),
                               programNameIdxOf(Records[1]), programStubIdxOf(Records[1]))

\* C16: the down payment, the front-end cap and the dealer fee shown for a tier
\* are the first non-empty values that the rows of the tier bring, in server.js
\* and in part_001; a later row does not replace them.
FirstMetaWins ==
    /\ ServerPivots
           => FirstMetaWinsServer(Records, locateColumns(Records[1]),
                                  programNameIdxOf(Records[1]), programStubIdxOf(Records[1]))
    /\ PolarisAccepts => FirstMetaWinsPolaris(Records, PolarisIdx)

----------------------------------------------------------------------------
(* C17 *)

\* the header has a Product and an Eligible Model Years column, and no other
\* column named after eligibility
SynthLayout(header) ==
    /\ \E i \in 1..Len(header) : Trim(header[i]) = colProduct
    /\ \E i \in 1..Len(header) : Trim(header[i]) = colYears
    /\ \A i \in 1..Len(header) :
           Trim(header[i]) # colYears
               => Range(toLowerCase(header[i])) \cap {"eligible", "eligibility", "makes"} = {}

\* "<Product> (<ModelYears>)"
SynthText(product, years) == product \o <<" ", "(">> \o years \o <<")">>

SynthShownServer(rows, ix, nameIdx, stubIdx) ==
    \A n \in 2..Len(rows) :
        LET shown(product, years) ==
                (/\ product # <<>> /\ years # <<>>
                 /\ Complete(rows[n], ix)
                 /\ Grouped(rows, n, nameIdx, stubIdx))
                    => \E k \in 1..Len(Rendered) :
                           /\ Rendered[k].kind = "promo"
                           /\ Rendered[k].group = BlockKey(rows[n], nameIdx, stubIdx)
                           /\ escapeHtml(SynthText(product, years)) \in Range(Rendered[k].elig)
        IN  shown(Trim(Cell(rows[n], ix.productIdx)), Trim(Cell(rows[n], ix.modelYearsIdx)))

SynthShownPolaris(rows, idx) ==
    \A n \in 2..Len(rows) :
        LET shown(product, years) ==
                (/\ product # <<>> /\ years # <<>>
                 /\ ~PolarisIncomplete(rows[n], idx))
                    => \E k \in 1..Len(Rendered) :
                           /\ Rendered[k].kind = "polaris"
                           /\ Rendered[k].group = rowKey(rows[n], idx)
                           /\ Rendered[k].elig = <<escapeHtmlPolaris(SynthText(product, years))>>
        IN  shown(Trim(Cell(rows[n], idx.idxProduct)), Trim(Cell(rows[n], idx.idxYears)))

\* part_001 alone: the text under each table is "<Product> (<ModelYears>)"
SynthesizedEligibilityInPolaris ==
    (PolarisAccepts /\ SynthLayout(Records[1])) => SynthShownPolaris(Records, PolarisIdx)

\* C17: on a sheet with a Product and an Eligible Model Years column and no
\* eligibility column, the block of every rendered row with a product and model
\* years carries the eligibility text "<Product> (<ModelYears>)" of that row,
\* in server.js and in part_001.
SynthesizedEligibility ==
    /\ (ServerPivots /\ SynthLayout(Records[1]))
           => SynthShownServer(Records, locateColumns(Records[1]),
                               programNameIdxOf(Records[1]), programStubIdxOf(Records[1]))
    /\ (PolarisAccepts /\ SynthLayout(Records[1])) => SynthShownPolaris(Records, PolarisIdx)

----------------------------------------------------------------------------
(* C18 *)

\* the group the claim gives a row: that of its program, else that of its
\* product and model years, else the group of the whole sheet
ClaimedGroup(program, product, years) ==
    IF program # <<>> THEN <<"program", program>>
    ELSE IF product # <<>> \/ years # <<>> THEN <<"product", product, years>>
    ELSE <<"sheet">>

\* server.js: the claimed group of a row
ServerClaimedGroup(row, ix, nameIdx, stubIdx) ==
    ClaimedGroup(BlockKey(row, nameIdx, stubIdx),
                 IF ix.productIdx = -1 THEN <<>> ELSE Trim(Cell(row, ix.productIdx)),
                 IF ix.modelYearsIdx = -1 THEN <<>> ELSE Trim(Cell(row, ix.modelYearsIdx)))

\* server.js: some block has the tier of the row among its rows and the term
\* of the row among its columns
ServerRowRendered(row, ix) ==
    \E k \in 1..Len(Rendered) :
        /\ Rendered[k].kind = "promo"
        /\ \E i \in 1..Len(Rendered[k].rows) :
               Rendered[k].rows[i].tier = escapeHtml(formatTierLabel(Cell(row, ix.tierIdx)))
        /\ escapeHtml(formatTermLabel(Cell(row, ix.termIdx))) \in Range(Rendered[k].terms)

GroupedAsClaimedServer(rows, ix, nameIdx, stubIdx) ==
    /\ \A n \in 2..Len(rows) : Complete(rows[n], ix) => ServerRowRendered(rows[n], ix)
    /\ Len(Blocks(Rendered))
           = Cardinality({ServerClaimedGroup(rows[n], ix, nameIdx, stubIdx) :
                             n \in {m \in 2..Len(rows) : Complete(rows[m], ix)}})

\* part_001: the row is not skipped and has a rate for some tier
PolarisCounts(row, idx) ==
    ~isEmptyRow(row, idx) /\ \E t \in 1..Len(tierOrder) : PolarisRate(row, idx, t) # <<>>

GroupedAsClaimedPolaris(rows, idx) ==
    /\ \A n \in 2..Len(rows) :
           PolarisCounts(rows[n], idx)
               => \E k \in 1..Len(Rendered) :
                      /\ Rendered[k].kind = "polaris"
                      /\ Rendered[k].group = rowKey(rows[n], idx)
                      /\ escapeHtmlPolaris(termLabelFrom(Cell(rows[n], idx.idxTerm)))
                             \in Range(Rendered[k].head)
    /\ Len(Blocks(Rendered))
           = Cardinality({ClaimedGroup(<<>>, Trim(Cell(rows[n], idx.idxProduct)),
                                       Trim(Cell(rows[n], idx.idxYears))) :
                             n \in {m \in 2..Len(rows) : PolarisCounts(rows[m], idx)}})

\* part_001 alone: one block per product and model years, no row dropped
GroupingKeyInPolaris == PolarisAccepts => GroupedAsClaimedPolaris(Records, PolarisIdx)

\* C18: every data row with a tier, a rate and a term is rendered in a block,
\* and there is one block per group of such rows, the group of a row being that
\* of its program column when it has a value there, else that of its product
\* and model years, else the one group of the whole sheet; in server.js and in
\* part_001.
GroupingKey ==
    /\ ServerPivots
           => GroupedAsClaimedServer(Records, locateColumns(Records[1]),
                                     programNameIdxOf(Records[1]), programStubIdxOf(Records[1]))
    /\ PolarisAccepts => GroupedAsClaimedPolaris(Records, PolarisIdx)

----------------------------------------------------------------------------
(* C19 *)

\* the title of the section a row opens, "none" if it opens none
SectionTitle(row) ==
    LET titled(joined) ==
            IF Includes(joined, Used) THEN "Used"
            ELSE IF Includes(joined, NonPartner) THEN "Non-Partner Unsubvented"
            ELSE IF Includes(joined, Partner) THEN "Partner & Subvented"
            ELSE "none"
    IN  titled(Join(cleanRow(row), <<" ">>))

\* the last section-title row at or before row i of the window, 0 if none
SectionOf(w, i) ==
    LET last(S) == IF S = {} THEN 0 ELSE CHOOSE s \in S : \A r \in S : r <= s
    IN  last({s \in 1..i : SectionTitle(w[s]) # "none"})

\* row i comes after the header row h and its first cell contains TIER
IsDataRow(w, i, h) == i > h /\ firstCellHas(cleanRow(w[i]), <<"TIER">>)

\* a blank row stands before the data row i, after the header row h and after
\* the section row of row i
AfterBlankRow(w, i, h) ==
    \E j \in (h + 1)..(i - 1) : j > SectionOf(w, i) /\ BlankRow(cleanRow(w[j]))

\* the data rows of the sub-table that row s opens (s = 0: before any section)
SectionRows(w, s, h, stopAtBlank) ==
    LET f[n \in 0..Len(w)] ==
            IF n = 0 THEN <<>>
            ELSE IF /\ IsDataRow(w, n, h)
                    /\ SectionOf(w, n) = s
                    /\ (stopAtBlank => ~AfterBlankRow(w, n, h))
                 THEN Append(f[n - 1], cleanRow(w[n]))
                 ELSE f[n - 1]
    IN  f[Len(w)]

\* the sub-tables of the window, those without data rows left out
SubTables(w, h, stopAtBlank) ==
    LET table(s, rows) ==
            IF rows = <<>> \/ (s > 0 /\ SectionTitle(w[s]) = "none") THEN <<>>
            ELSE << [title |-> IF s = 0 THEN "" ELSE SectionTitle(w[s]),
                     head  |-> cleanRow(w[h]),
                     body  |-> rows] >>
        f[s \in 0..Len(w)] ==
            (IF s = 0 THEN <<>> ELSE f[s - 1]) \o table(s, SectionRows(w, s, h, stopAtBlank))
    IN  f[Len(w)]

\* the request was answered with a standard rate sheet
StandardRendered ==
    /\ req.app = "upload"
    /\ Answered
    /\ Rendered # <<>>
    /\ Rendered[1].kind = "standard-sheet"

StandardTablesAre(stopAtBlank) ==
    LET of(w) ==
            Rendered[1].tables
                = SubTables(w, 1 + FirstIndex(w, LAMBDA r : firstCellHas(r, <<"TIER", "S">>)),
                            stopAtBlank)
    IN  of(Slice(splitRows(req.body.lines), StandardWindow))

\* parseStandard without the stop at a blank row: sections, their titles, their
\* data rows up to the end of the window
StandardSubTablesToWindowEnd == StandardRendered => StandardTablesAre(FALSE)

\* C19: of the first 23 rows, each row containing PARTNER, NON-PARTNER or USED
\* opens a sub-table of the matching title; each row after the header row whose
\* first cell contains TIER is a data row of the sub-table of the nearest
\* section row before it; and a sub-table takes no more rows after a blank row,
\* or after the window.
StandardSubTables == StandardRendered => StandardTablesAre(TRUE)

----------------------------------------------------------------------------
(* C21 *)

\* server.js: the sheet has a header row and no data row, or only data rows
\* that the pivot skips
NothingToPivot(rows) ==
    /\ rows # <<>>
    /\ Pivoted(locateColumns(rows[1]))
    /\ \A n \in 2..Len(rows) : ~Complete(rows[n], locateColumns(rows[1]))

\* generateRateSheetHtml on the sheets given to /api/upload-csv: no answer of
\* the handler that carries a fragment carries an empty one
FragmentNeverEmpty ==
    (req.app = "server" /\ Answered /\ "html" \in DOMAIN res) => res.html # <<>>

\* C21: a refresh that succeeds leaves a non-empty cachedRatesHtml, whatever the
\* tab holds (no values, a header row only, only rows that are skipped); a
\* cache that is filled stays filled; and once a refresh has succeeded no GET
\* /rates/latest calls refreshRatesHtml.
OncePopulatedNeverEmpty ==
    [][/\ RefreshSucceeds => cachedRatesHtml' # <<>>
       /\ cachedRatesHtml # <<>> => cachedRatesHtml' # <<>>
       /\ (lastRefresh # 0 \/ cachedRatesHtml # <<>>) => ~LatestStartsRefresh]_vars

\* C21 happens: the cache was filled from a tab with nothing to pivot, and a
\* later GET /rates/latest was answered with that placeholder
OncePopulatedNeverEmptySeen ==
    /\ lastRefresh >= 1
    /\ cachedRatesHtml = <<Paragraph("No promo data found.")>>
    /\ cachedRatesHtml = generateRateSheetHtml(TabAllSkipped.values)
    /\ NothingToPivot(TabAllSkipped.values)
    /\ res.route = "latest"
    /\ res.status = 200
    /\ res.html = cachedRatesHtml
    /\ res.at > lastRefresh

====
